---- MODULE Spec2Model ----
(***************************************************************************)
(* A model of the RetailRepairApp service dashboard (src/app.py).          *)
(*                                                                         *)
(* A text cell is a sequence of characters, each character a string.       *)
(* Characters outside ASCII are written as named tokens: "{aa}" and "{AA}" *)
(* are the Norwegian letter a-with-ring in lower and upper case, "{nbsp}"  *)
(* is U+00A0, "{zwsp}" is U+200B and "{bom}" is U+FEFF.                    *)
(* A date is the number of days since 1970-01-01 (the pandas epoch); the   *)
(* missing date (NaT) is the value NaT.                                    *)
(***************************************************************************)
EXTENDS Integers, Sequences, FiniteSets, TLC

VARIABLES
    values,       \* the worksheet's data rows, as ws.get_all_values() returns them
    df_raw,       \* the table fetch_data returned to the last script run
    df,           \* df_raw without the SPS tickets
    day,          \* st.session_state["day"], Unset before the first run
    real_today,   \* today_oslo(): the real current date
    selected,     \* the view chosen in the sidebar menu
    out,          \* what the last script run derived for the selected view
    arg,          \* the arguments of a helper applied on its own
    res,          \* the helper's result
    infer_format, \* whether the installed pandas infers one date format for a
                  \* whole column (2.0 and later) or reads each text on its own
    show_datepicker, \* st.session_state["show_datepicker"]
    authenticated,   \* st.session_state.authenticated: <<>> while the key is
                     \* absent, else the one-element sequence of its value
    login_form       \* Brukernavn and Passord of the last login submit

vars == <<values, df_raw, df, day, real_today, selected, out, arg, res, infer_format,
          show_datepicker, authenticated, login_form>>

(***************************************************************************)
(* Text                                                                    *)
(***************************************************************************)
UpperChars == <<"A","B","C","D","E","F","G","H","I","J","K","L","M","N","O","P",
                "Q","R","S","T","U","V","W","X","Y","Z","{AA}">>
LowerChars == <<"a","b","c","d","e","f","g","h","i","j","k","l","m","n","o","p",
                "q","r","s","t","u","v","w","x","y","z","{aa}">>
DigitChars == <<"0","1","2","3","4","5","6","7","8","9">>

IsUpper(c) == \E i \in 1..Len(UpperChars) : UpperChars[i] = c
IsLower(c) == \E i \in 1..Len(LowerChars) : LowerChars[i] = c
IsDigit(c) == \E i \in 1..Len(DigitChars) : DigitChars[i] = c
DigitVal(c) == (CHOOSE i \in 1..Len(DigitChars) : DigitChars[i] = c) - 1

\* str.isspace(): what str.strip() and the regex class \s remove
IsSpace(c) == c \in {" ", "{nbsp}", "{tab}"}

\* the regex class \w: what \b separates from the rest
IsWordChar(c) == IsUpper(c) \/ IsLower(c) \/ IsDigit(c) \/ c = "_"

CaseFoldChar(c) ==
    IF IsUpper(c) THEN LowerChars[CHOOSE i \in 1..Len(UpperChars) : UpperChars[i] = c]
    ELSE c

casefold(s) == [i \in 1..Len(s) |-> CaseFoldChar(s[i])]

\* a Series or list that is held in memory: the sequence s, every element
\* computed once
Computed(s) == s \o <<>>

SetMin(S) == CHOOSE m \in S : \A x \in S : m <= x
SetMax(S) == CHOOSE m \in S : \A x \in S : x <= m

\* the members of S, a set of positions of a sequence of n places, ascending
Asc(n, S) ==
    LET idx[i \in 0..n] ==
            IF i = 0 THEN <<>>
            ELSE IF i \in S THEN Append(idx[i - 1], i) ELSE idx[i - 1]
    IN idx[n]

\* the characters of s at the positions K, in order
Pick(s, K) ==
    LET idx == Asc(Len(s), K)
    IN [j \in 1..Len(idx) |-> s[idx[j]]]

\* str.strip(): the text between the first and the last non-space character
strip(s) ==
    LET solid == {i \in 1..Len(s) : ~IsSpace(s[i])}
    IN IF solid = {} THEN <<>> ELSE SubSeq(s, SetMin(solid), SetMax(solid))

\* str.replace(old, new) for one character old and one character new
replace_char(s, old, new) == [i \in 1..Len(s) |-> IF s[i] = old THEN new ELSE s[i]]

\* str.replace(old, "") for one character old
remove_char(s, old) == Pick(s, {i \in 1..Len(s) : s[i] # old})

\* re.sub(r"\s+", " ", s): every run of whitespace becomes one space
collapse_spaces(s) ==
    LET first == {i \in 1..Len(s) : ~IsSpace(s[i]) \/ i = 1 \/ ~IsSpace(s[i - 1])}
    IN replace_char(replace_char(Pick(s, first), "{nbsp}", " "), "{tab}", " ")

\* pd.NA, the missing cell: no text is equal to it
NA == <<"pd.NA">>

T_NA    == <<"<", "N", "A", ">">>
T_nan   == <<"n", "a", "n">>
T_None  == <<"N", "o", "n", "e">>
T_NaN   == <<"N", "a", "N">>
T_N_A   == <<"N", "/", "A">>
T_Unknown == <<"U", "n", "k", "n", "o", "w", "n">>
T_Ukjent == <<"U", "k", "j", "e", "n", "t">>

\* texts of the worksheets
T_Acme == <<"A", "c", "m", "e">>
T_acme == <<"a", "c", "m", "e">>
T_Ola == <<"O", "l", "a">>
T_Kari == <<"K", "a", "r", "i">>
T_Innlevert == <<"I", "n", "n", "l", "e", "v", "e", "r", "t">>
T_Reparert == <<"R", "e", "p", "a", "r", "e", "r", "t">>
T_Venter_reason == <<"V", "e", "n", "t", "e", "r", " ", "p", "{aa}", " ", "e", "k", "s", "t", "e", "r", "n", " ", "p", "a", "r", "t", ":", " ", "x">>
T_VENTER_upper == <<"V", "E", "N", "T", "E", "R", " ", "P", "{AA}", " ", "E", "K", "S", "T", "E", "R", "N", " ", "P", "A", "R", "T">>
T_venter_part2 == <<"v", "e", "n", "t", "e", "r", " ", "p", "{aa}", " ", "e", "k", "s", "t", "e", "r", "n", " ", "p", "a", "r", "t", "2">>
D_2024_03_25 == <<"2", "5", ".", "0", "3", ".", "2", "0", "2", "4">>
D_2024_03_17 == <<"1", "7", ".", "0", "3", ".", "2", "0", "2", "4">>
D_2024_03_16 == <<"1", "6", ".", "0", "3", ".", "2", "0", "2", "4">>
D_2024_03_15 == <<"1", "5", ".", "0", "3", ".", "2", "0", "2", "4">>
D_2024_03_14 == <<"1", "4", ".", "0", "3", ".", "2", "0", "2", "4">>
D_2024_03_01 == <<"0", "1", ".", "0", "3", ".", "2", "0", "2", "4">>
D_2024_02_16 == <<"1", "6", ".", "0", "2", ".", "2", "0", "2", "4">>
D_2024_02_05 == <<"0", "5", ".", "0", "2", ".", "2", "0", "2", "4">>
D_2024_02_01 == <<"0", "1", ".", "0", "2", ".", "2", "0", "2", "4">>
T_noon == <<" ", "1", "2", ":", "0", "0">>

\* Series.astype(str): str(pd.NA) is "<NA>"
astype_str(c) == IF c = NA THEN T_NA ELSE c

StartsWith(s, p) == Len(s) >= Len(p) /\ SubSeq(s, 1, Len(p)) = p

(***************************************************************************)
(* Dates                                                                   *)
(***************************************************************************)
NaT == -999999

\* .dt.total_seconds() / 86400.0: a Timestamp and a difference of Timestamps
\* are kept in minutes, MinutesPerDay of them to the day
MinutesPerDay == 1440

isna(d) == d = NaT

\* the proleptic Gregorian day number of y-m-d, counted from 1970-01-01
DaysFromCivil(y, m, d) ==
    LET yy  == IF m <= 2 THEN y - 1 ELSE y
        era == yy \div 400
        yoe == yy - era * 400
        mp  == (m + 9) % 12
        doy == (153 * mp + 2) \div 5 + d - 1
        doe == yoe * 365 + yoe \div 4 - yoe \div 100 + doy
    IN era * 146097 + doe - 719468

IsLeap(y) == (y % 4 = 0 /\ y % 100 # 0) \/ y % 400 = 0

DaysInMonth(y, m) ==
    IF m = 2 THEN (IF IsLeap(y) THEN 29 ELSE 28)
    ELSE IF m \in {4, 6, 9, 11} THEN 30 ELSE 31

\* date.weekday(): Monday is 0, Sunday is 6 (1970-01-01 was a Thursday)
weekday(d) == (d + 3) % 7

(***************************************************************************)
(* fetch_data: the cleaned table.  A row is a record with one field per    *)
(* expected column:                                                        *)
(*   sdate  "Service status date"      status "Service status"             *)
(*   rdate  "Service repair date"      recv   "Service date product        *)
(*   brand  "Product brand"                    received"                   *)
(*   tech   "Service technician"       prio   "Service priority"           *)
(*   num    "Service number"                                               *)
(***************************************************************************)
DateCols == {"sdate", "rdate", "recv"}
TextCols == {"status", "brand", "tech", "prio", "num"}
Columns  == DateCols \cup TextCols

SerialLo == 20000
SerialHi == 60000

\* origin="1899-12-30"
SerialOrigin == DaysFromCivil(1899, 12, 30)

\* the scrubbing of a date cell's text
scrub_date_text(c) ==
    LET t1 == replace_char(astype_str(c), "{nbsp}", " ")
        t2 == remove_char(t1, "{zwsp}")
        t3 == remove_char(t2, "{bom}")
        t4 == replace_char(t3, ",", " ")
    IN strip(collapse_spaces(t4))

\* txt.replace({"": pd.NA, "nan": pd.NA, "None": pd.NA, "NaN": pd.NA, "<NA>": pd.NA})
date_null_words(t) == IF t \in {<<>>, T_nan, T_None, T_NaN, T_NA} THEN NA ELSE t

DigitsValue(s) ==
    LET v[i \in 0..Len(s)] == IF i = 0 THEN 0 ELSE 10 * v[i - 1] + DigitVal(s[i])
    IN v[Len(s)]

\* The parsing of date texts by pd.to_datetime(..., errors="coerce",
\* dayfirst=True).  The texts of the model's cells that it reads as dates are
\* the day-first dates DD.MM.YYYY, DD/MM/YYYY and DD-MM-YYYY of the calendar,
\* such a date followed by a time of day HH:MM, and the four-digit years
\* within the bounds of a Timestamp; any other text of the model's cells is
\* NaT.  A Timestamp is kept as its day and its minutes after midnight.
IsDayFirstDate(t) ==
    /\ t # NA /\ Len(t) = 10
    /\ \A i \in {1, 2, 4, 5, 7, 8, 9, 10} : IsDigit(t[i])
    /\ t[3] \in {".", "/", "-"} /\ t[6] = t[3]
    /\ LET d == 10 * DigitVal(t[1]) + DigitVal(t[2])
           m == 10 * DigitVal(t[4]) + DigitVal(t[5])
           y == DigitsValue(SubSeq(t, 7, 10))
       IN m \in 1..12 /\ d >= 1 /\ d <= DaysInMonth(y, m)

IsDateTime(t) ==
    /\ t # NA /\ Len(t) = 16
    /\ IsDayFirstDate(SubSeq(t, 1, 10))
    /\ t[11] = " " /\ t[14] = ":"
    /\ \A i \in {12, 13, 15, 16} : IsDigit(t[i])
    /\ 10 * DigitVal(t[12]) + DigitVal(t[13]) <= 23
    /\ 10 * DigitVal(t[15]) + DigitVal(t[16]) <= 59

IsYear(t) ==
    /\ t # NA /\ Len(t) = 4
    /\ \A i \in 1..4 : IsDigit(t[i])
    /\ DigitsValue(t) \in 1678..2261

\* the reading of one text on its own
parse_datetime_string(t) ==
    IF IsDayFirstDate(t)
    THEN DaysFromCivil(DigitsValue(SubSeq(t, 7, 10)),
                       10 * DigitVal(t[4]) + DigitVal(t[5]),
                       10 * DigitVal(t[1]) + DigitVal(t[2]))
    ELSE IF IsDateTime(t)
    THEN DaysFromCivil(DigitsValue(SubSeq(t, 7, 10)),
                       10 * DigitVal(t[4]) + DigitVal(t[5]),
                       10 * DigitVal(t[1]) + DigitVal(t[2]))
    ELSE IF IsYear(t) THEN DaysFromCivil(DigitsValue(t), 1, 1)
    ELSE NaT

\* the minutes after midnight of a text that is read as a Timestamp
time_of_day(t) ==
    IF IsDateTime(t)
    THEN 60 * (10 * DigitVal(t[12]) + DigitVal(t[13])) + 10 * DigitVal(t[15]) + DigitVal(t[16])
    ELSE 0

\* the format pandas guesses for a text, <<>> when it guesses none
guess_datetime_format(t) ==
    IF IsDayFirstDate(t) THEN <<"%d", t[3], "%m", t[3], "%Y">>
    ELSE IF IsDateTime(t) THEN <<"%d", t[3], "%m", t[3], "%Y", " ", "%H", ":", "%M">>
    ELSE IF IsYear(t) THEN <<"%Y">>
    ELSE <<>>

\* the reading of one text in a given format: NaT when the text is not in it
array_strptime(t, fmt) ==
    IF guess_datetime_format(t) = fmt THEN parse_datetime_string(t) ELSE NaT

\* pd.to_datetime(txt, errors="coerce", dayfirst=True) of a column of texts.
\* A pandas that infers the format (2.0 and later) guesses it from the first
\* text that is not NA and reads every text in that format, each on its own
\* when it guesses none; an earlier pandas reads each text on its own.
to_datetime(txt) ==
    LET present == {i \in 1..Len(txt) : txt[i] # NA}
        fmt     == IF infer_format /\ present # {}
                   THEN guess_datetime_format(txt[SetMin(present)]) ELSE <<>>
    IN Computed([i \in 1..Len(txt) |->
                    IF txt[i] = NA THEN NaT
                    ELSE IF fmt = <<>> THEN parse_datetime_string(txt[i])
                    ELSE array_strptime(txt[i], fmt)])

\* a whole number written in digits and followed by ".5"
IsHalf(t) ==
    /\ t # NA /\ Len(t) >= 3
    /\ t[Len(t) - 1] = "." /\ t[Len(t)] = "5"
    /\ \A i \in 1..(Len(t) - 2) : IsDigit(t[i])

\* pd.to_numeric(txt, errors="coerce") of one text: <<n>> for the whole number
\* n written in digits, <<n, m>> for n and a half (m the minutes of half a
\* day), <<>> (NaN) for any other text of the model's cells
to_numeric(t) ==
    IF t # NA /\ t # <<>> /\ \A i \in 1..Len(t) : IsDigit(t[i])
    THEN <<DigitsValue(t)>>
    ELSE IF IsHalf(t)
    THEN <<DigitsValue(SubSeq(t, 1, Len(t) - 2)), MinutesPerDay \div 2>>
    ELSE <<>>

\* dt.isna() & num.notna() & (num > 20000) & (num < 60000)
serial_mask(d, num) ==
    /\ isna(d)
    /\ num # <<>>
    /\ (num[1] > SerialLo \/ (num[1] = SerialLo /\ Len(num) = 2))
    /\ num[1] < SerialHi

\* clean_date_series, each Timestamp as its day and its minutes after
\* midnight: the Timestamp of a text t that to_datetime read as d and
\* to_numeric as num.  pd.to_datetime(num, unit="D", origin=...) keeps the
\* fraction of the day of a serial.
serial_or_parsed(t, d, num) ==
    [date |-> IF serial_mask(d, num) THEN SerialOrigin + num[1] ELSE d,
     time |-> IF serial_mask(d, num) THEN (IF Len(num) = 2 THEN num[2] ELSE 0)
              ELSE IF isna(d) THEN 0 ELSE time_of_day(t)]

parsed_and_serials(txt, dt) ==
    Computed([i \in 1..Len(txt) |-> serial_or_parsed(txt[i], dt[i], to_numeric(txt[i]))])

date_texts(s) ==
    Computed([i \in 1..Len(s) |-> date_null_words(scrub_date_text(s[i]))])

clean_timestamps(s) == parsed_and_serials(date_texts(s), to_datetime(date_texts(s)))

\* the days of the column's Timestamps
clean_date_series(s) ==
    LET dt == clean_timestamps(s)
    IN [i \in 1..Len(s) |-> dt[i].date]

\* the trim of a text column
clean_text_cell(c) == strip(replace_char(astype_str(c), "{nbsp}", " "))

Column(rows, col) == [i \in 1..Len(rows) |-> rows[i][col]]

\* the cleaning of the date and text columns of the rows of the table
cleaned_rows(rows, dates) ==
    [i \in 1..Len(rows) |->
        [sdate  |-> dates["sdate"][i].date,
         rdate  |-> dates["rdate"][i].date,
         recv   |-> dates["recv"][i].date,
         sdate_time |-> dates["sdate"][i].time,
         rdate_time |-> dates["rdate"][i].time,
         recv_time  |-> dates["recv"][i].time,
         status |-> clean_text_cell(rows[i].status),
         brand  |-> clean_text_cell(rows[i].brand),
         tech   |-> clean_text_cell(rows[i].tech),
         prio   |-> clean_text_cell(rows[i].prio),
         num    |-> clean_text_cell(rows[i].num)]]

clean_columns(rows) ==
    cleaned_rows(rows, [sdate |-> clean_timestamps(Column(rows, "sdate")),
                        rdate |-> clean_timestamps(Column(rows, "rdate")),
                        recv  |-> clean_timestamps(Column(rows, "recv"))])

\* fetch_data of a worksheet whose header row is the expected one: vals are
\* the rows under it, each a record of its cells
fetch_data(vals) ==
    LET blank(r)   == [c \in Columns |-> IF r[c] = <<>> THEN NA ELSE r[c]]
        all_na(r)  == \A c \in Columns : r[c] = NA
        keep(r)    == ~all_na(blank(r))
        kept       == SelectSeq(vals, keep)
    IN clean_columns(Computed([i \in 1..Len(kept) |-> blank(kept[i])]))

(***************************************************************************)
(* fetch_data: the header row.  A worksheet extract is a sequence of rows, *)
(* each a sequence of cell texts; the first row is the header.             *)
(***************************************************************************)
norm_header(x) ==
    LET x1 == replace_char(x, "{nbsp}", " ")
        x2 == remove_char(x1, "{zwsp}")
        x3 == remove_char(x2, "{bom}")
    IN strip(collapse_spaces(x3))

expected ==
    <<<<"S", "e", "r", "v", "i", "c", "e", " ", "s", "t", "a", "t", "u", "s", " ", "d", "a", "t", "e">>,
      <<"S", "e", "r", "v", "i", "c", "e", " ", "s", "t", "a", "t", "u", "s">>,
      <<"S", "e", "r", "v", "i", "c", "e", " ", "r", "e", "p", "a", "i", "r", " ", "d", "a", "t", "e">>,
      <<"S", "e", "r", "v", "i", "c", "e", " ", "d", "a", "t", "e", " ", "p", "r", "o", "d", "u", "c", "t", " ", "r", "e", "c", "e", "i", "v", "e", "d">>,
      <<"P", "r", "o", "d", "u", "c", "t", " ", "b", "r", "a", "n", "d">>,
      <<"S", "e", "r", "v", "i", "c", "e", " ", "t", "e", "c", "h", "n", "i", "c", "i", "a", "n">>,
      <<"S", "e", "r", "v", "i", "c", "e", " ", "p", "r", "i", "o", "r", "i", "t", "y">>,
      <<"S", "e", "r", "v", "i", "c", "e", " ", "n", "u", "m", "b", "e", "r">>>>

\* the table of lines 169-210: its column labels, for each column the column
\* of the extract it came from (0 for a column filled with pd.NA) and the
\* rows left after the empty ones are dropped.  error: a step after line 210
\* raises, because df[col] of a label borne by two columns is a table, not a
\* column.
fetch_data_columns(sheet) ==
    IF sheet = <<>> THEN [error |-> FALSE, columns |-> <<>>, source |-> <<>>, rows |-> <<>>]
    ELSE
    LET headers == [j \in 1..Len(sheet[1]) |-> norm_header(sheet[1][j])]
        w       == Len(headers)
        blank(r) == [j \in 1..w |-> IF r[j] = <<>> THEN NA ELSE r[j]]
        all_na(r) == \A j \in 1..w : blank(r)[j] = NA
        keep(r)  == ~all_na(r)
        kept    == SelectSeq(Tail(sheet), keep)
        \* {norm_header(c).casefold(): c for c in df.columns}: the last column
        \* of a key stays
        keys    == [j \in 1..w |-> casefold(norm_header(headers[j]))]
        wanted_keys == [e \in 1..Len(expected) |-> casefold(expected[e])]
        has_key(e) == \E j \in 1..w : keys[j] = wanted_keys[e]
        cols_norm(e) == headers[SetMax({j \in 1..w : keys[j] = wanted_keys[e]})]
        present(wanted) == \E j \in 1..w : headers[j] = wanted
        \* the expected names whose rename applies, and the label it renames
        renames == {e \in 1..Len(expected) : ~present(expected[e]) /\ has_key(e)}
        old     == [e \in renames |-> cols_norm(e)]
        columns == [j \in 1..w |->
                       LET to == {e \in renames : old[e] = headers[j]}
                       IN IF to = {} THEN headers[j] ELSE expected[SetMin(to)]]
        absent(e) == \A j \in 1..w : columns[j] # e
        missing == SelectSeq(expected, absent)
        all     == columns \o missing
    IN [error   |-> \E e \in 1..Len(expected) :
                       Cardinality({j \in 1..w : columns[j] = expected[e]}) > 1,
        columns |-> all,
        source  |-> [j \in 1..Len(all) |-> IF j <= w THEN j ELSE 0],
        rows    |-> [i \in 1..Len(kept) |->
                       [j \in 1..Len(all) |-> IF j <= w THEN blank(kept[i])[j] ELSE NA]]]

\* the field of a row that holds the expected column e
ColumnCode == <<"sdate", "status", "rdate", "recv", "brand", "tech", "prio", "num">>

\* fetch_data after line 210, of a table t that has its columns and raises no
\* error: the cleaned rows, each a record of the expected columns
fetch_data_sheet(t) ==
    LET col(c) == CHOOSE j \in 1..Len(t.columns) :
                      \E e \in 1..Len(expected) : ColumnCode[e] = c /\ t.columns[j] = expected[e]
    IN clean_columns([i \in 1..Len(t.rows) |-> [c \in Columns |-> t.rows[i][col(c)]]])

(***************************************************************************)
(* The data of a script run                                                *)
(***************************************************************************)
T_sps == <<"s", "p", "s">>

\* df_raw[prio != "sps"], were prio not folded to lower case
NonSps_as_written(raw) ==
    LET not_sps(r) == strip(astype_str(r.prio)) # T_sps
    IN SelectSeq(raw, not_sps)

\* df_sps = df_raw[prio == "sps"]
df_sps(raw) ==
    LET is_sps(r) == casefold(strip(astype_str(r.prio))) = T_sps
    IN SelectSeq(raw, is_sps)

\* df = df_raw[prio != "sps"]
NonSps(raw) ==
    LET not_sps(r) == casefold(strip(astype_str(r.prio))) # T_sps
    IN SelectSeq(raw, not_sps)

latest_date_in_data(d, now) ==
    LET s == {d[i].sdate : i \in 1..Len(d)} \ {NaT}
        r == {d[i].rdate : i \in 1..Len(d)} \ {NaT}
        candidates == (IF s # {} THEN {SetMax(s)} ELSE {})
                      \cup (IF r # {} THEN {SetMax(r)} ELSE {})
    IN IF candidates # {} THEN SetMax(candidates) ELSE now

\* "day" not in st.session_state
Unset == NaT

\* the selected day, were every run to take it from the data
session_day_of_data(d, cur, now) ==
    IF latest_date_in_data(d, now) > now THEN now ELSE latest_date_in_data(d, now)

session_day_unclamped(d, cur, now) ==
    IF cur = Unset THEN latest_date_in_data(d, now) ELSE cur

\* the selected day a run works with: initialised when unset, then clamped
SessionDay(d, cur, now) ==
    LET day0 == IF cur = Unset THEN latest_date_in_data(d, now) ELSE cur
    IN IF day0 > now THEN now ELSE day0

(***************************************************************************)
(* Helpers of the views                                                    *)
(***************************************************************************)
WindowDays == 30

\* pd.bdate_range(end=..., periods=n): the end is rolled back to a business
\* day and the range holds the n business days that end there, ascending.
\* BDayNumber counts the business days of the calendar, five to a week.
RollBack(d) == IF weekday(d) = 5 THEN d - 1 ELSE IF weekday(d) = 6 THEN d - 2 ELSE d

BDayNumber(d) == 5 * ((d + 3) \div 7) + weekday(d)

BDayOfNumber(k) == 7 * (k \div 5) + (k % 5) - 3

\* bdate_range, were the end not rolled back to a business day
bdate_range_unrolled(end, n) ==
    LET last == BDayNumber(end)
    IN [k \in 1..n |-> BDayOfNumber(last - (n - k))]

bdate_range(end, n) ==
    LET last == BDayNumber(RollBack(end))
    IN [k \in 1..n |-> BDayOfNumber(last - (n - k))]

_last_business_days(end_date, n) == bdate_range(end_date, n)

Kunder_last_business_days(end_day, n) == bdate_range(end_day, n)

isin(x, seq) == \E i \in 1..Len(seq) : seq[i] = x

\* _trend_arrow_color, were the colour of a fall that of a rise
_trend_arrow_color_one_colour(delta, good_when_up, eps) ==
    IF delta > eps THEN <<"up", IF good_when_up THEN "green" ELSE "red">>
    ELSE IF delta < -eps THEN <<"down", IF good_when_up THEN "green" ELSE "red">>
    ELSE <<"flat", "gray">>

\* delta and eps are whole numbers of one common unit
_trend_arrow_color(delta, good_when_up, eps) ==
    IF delta > eps THEN <<"up", IF good_when_up THEN "green" ELSE "red">>
    ELSE IF delta < -eps THEN <<"down", IF good_when_up THEN "red" ELSE "green">>
    ELSE <<"flat", "gray">>

\* Kunder's _trend_arrow_color, were its band twice as wide
Kunder_trend_arrow_color_wide(delta, good_when_up, eps) ==
    IF delta > 2 * eps THEN <<"up", IF good_when_up THEN "green" ELSE "red">>
    ELSE IF delta < -(2 * eps) THEN <<"down", IF good_when_up THEN "red" ELSE "green">>
    ELSE <<"flat", "gray">>

Kunder_trend_arrow_color(delta, good_when_up, eps) ==
    IF delta > eps THEN <<"up", IF good_when_up THEN "green" ELSE "red">>
    ELSE IF delta < -eps THEN <<"down", IF good_when_up THEN "red" ELSE "green">>
    ELSE <<"flat", "gray">>

\* the _clean_text of the Dashboard and of Kunder (the same text in both)
Dashboard_clean_text(c, unknown) ==
    LET x == strip(astype_str(c))
    IN IF x \in {<<>>, T_nan, T_None, T_NaN} THEN unknown ELSE x

Kunder_clean_text(c, unknown) ==
    LET x == strip(astype_str(c))
    IN IF x \in {<<>>, T_nan, T_None, T_NaN} THEN unknown ELSE x

T_venter == <<"v","e","n","t","e","r"," ","p","{aa}"," ",
              "e","k","s","t","e","r","n"," ","p","a","r","t">>
T_Venter == <<"V","e","n","t","e","r"," ","p","{aa}"," ",
              "e","k","s","t","e","r","n"," ","p","a","r","t">>
T_innlevert == <<"i","n","n","l","e","v","e","r","t">>

\* str.match(r"^venter på ekstern part\b")
match_venter(low) ==
    /\ StartsWith(low, T_venter)
    /\ (Len(low) = Len(T_venter) \/ ~IsWordChar(low[Len(T_venter) + 1]))

Inhouse_status_group(status) ==
    LET raw_status == strip(astype_str(status))
        low        == casefold(raw_status)
        mask       == match_venter(low)
    IN IF mask THEN T_Venter ELSE raw_status

Arbeidet_status_group(status) ==
    LET raw_status == strip(astype_str(status))
        mask       == match_venter(casefold(raw_status))
    IN IF mask THEN T_Venter ELSE raw_status

Kunder_status_group(status) ==
    LET raw_status == Kunder_clean_text(status, T_Ukjent)
        mask       == match_venter(casefold(raw_status))
    IN IF mask THEN T_Venter ELSE raw_status

(***************************************************************************)
(* The views.  A view's result is a record of what it derives; the rows it *)
(* selects are given by their row numbers in df.                           *)
(***************************************************************************)
Max(a, b) == IF a >= b THEN a ELSE b

\* a quotient n / m of two whole numbers, m > 0, kept exact as <<n, m>>
Quot(n, m) == <<n, m>>

\* the Timestamp of a day and its minutes after midnight, in minutes
Timestamp(date, time) == date * MinutesPerDay + time

\* Series.mean() of a non-empty series of TATs in minutes, in days, kept exact
mean(xs) ==
    LET acc[i \in 0..Len(xs)] == IF i = 0 THEN 0 ELSE acc[i - 1] + xs[i]
    IN Quot(acc[Len(xs)], Len(xs) * MinutesPerDay)

\* the TATs, were a negative one counted as zero
clamped_tat(td) == [k \in 1..Len(td) |-> Max(td[k], 0)]

\* tat_days[(tat_days >= 0) & tat_days.notna()]
valid_tat(td) ==
    LET ok(x) == x >= 0
    IN SelectSeq(td, ok)

\* float(tat_days.mean()) if not tat_days.empty else 0.0
mean_or_zero(td) == IF td # <<>> THEN mean(td) ELSE Quot(0, 1)

\* the per-ticket TAT, were the as-of day to end every ticket
tat_days_as_of(df_in, end_day) ==
    LET d == Asc(Len(df_in), {i \in 1..Len(df_in) : ~isna(df_in[i].recv)})
    IN [k \in 1..Len(d) |->
           Timestamp(end_day, 0) - Timestamp(df_in[d[k]].recv, df_in[d[k]].recv_time)]

\* the per-ticket TAT of avg_tat_days of the tickets of df_in that have a
\* received date: (repaired_dt.fillna(end_ts) - received_dt)
tat_days(df_in, end_day) ==
    LET d == Asc(Len(df_in), {i \in 1..Len(df_in) : ~isna(df_in[i].recv)})
        end_dt(i) == IF isna(df_in[i].rdate) THEN Timestamp(end_day, 0)
                     ELSE Timestamp(df_in[i].rdate, df_in[i].rdate_time)
    IN [k \in 1..Len(d) |->
           end_dt(d[k]) - Timestamp(df_in[d[k]].recv, df_in[d[k]].recv_time)]

avg_tat_days(df_in, end_day) ==
    IF df_in = <<>> THEN Quot(0, 1)
    ELSE IF \A i \in 1..Len(df_in) : isna(df_in[i].recv) THEN Quot(0, 1)
    ELSE mean_or_zero(valid_tat(tat_days(df_in, end_day)))

\* the per-ticket TAT of the rows x of d as _avg_tat_closed_days takes it
closed_tat_days(d, x) ==
    [k \in 1..Len(x) |->
        Timestamp(d[x[k]].rdate, d[x[k]].rdate_time) - Timestamp(d[x[k]].recv, d[x[k]].recv_time)]

\* _avg_tat_closed_days of the Dashboard, of the rows x of d
Dashboard_avg_tat_closed_days(d, x) ==
    IF x = <<>> THEN Quot(0, 1) ELSE mean_or_zero(valid_tat(closed_tat_days(d, x)))

\* _avg_tat_closed_days of Kunder, of the rows x of d
Kunder_avg_tat_closed_days(d, x) ==
    IF x = <<>> THEN Quot(0, 1) ELSE mean_or_zero(valid_tat(closed_tat_days(d, x)))

\* the per-ticket TAT of the open rows x of d, to end_day
open_tat_days(d, x, end_day) ==
    [k \in 1..Len(x) |-> Timestamp(end_day, 0) - Timestamp(d[x[k]].recv, d[x[k]].recv_time)]

\* the age of the open ticket of the first row
first_or_zero(td) == IF td # <<>> THEN td[1] \div MinutesPerDay ELSE 0

\* int(tat_open_days.max()) if not tat_open_days.empty else 0
oldest_or_zero(td) ==
    IF td # <<>> THEN SetMax({td[k] : k \in 1..Len(td)}) \div MinutesPerDay ELSE 0

\* a - b for two exact quotients, and its comparison with a band of eps
\* tenths: the delta and the band in units of 1 / (10 * a[2] * b[2])
QuotDelta(a, b) == 10 * (a[1] * b[2] - b[1] * a[2])
QuotBand(a, b, eps) == eps * a[2] * b[2]

\* the Dashboard's windows, were the previous one to end on the first day of
\* the current one
Dashboard_windows_overlapping(today) ==
    LET last_30_bd == _last_business_days(today, WindowDays)
        prev_30_bd == _last_business_days(last_30_bd[1], WindowDays)
    IN [last_30_bd |-> last_30_bd, prev_30_bd |-> prev_30_bd]

\* last_30_bd and prev_30_bd of the Dashboard
Dashboard_windows(today) ==
    LET last_30_bd == _last_business_days(today, WindowDays)
        prev_30_bd == _last_business_days(last_30_bd[1] - 1, WindowDays)
    IN [last_30_bd |-> last_30_bd, prev_30_bd |-> prev_30_bd]

\* last_30_bd and prev_30_bd of Kunder
Kunder_windows(today) ==
    LET last_30_bd == Kunder_last_business_days(today, WindowDays)
        prev_30_bd == Kunder_last_business_days(last_30_bd[1] - 1, WindowDays)
    IN [last_30_bd |-> last_30_bd, prev_30_bd |-> prev_30_bd]

\* the average, were it taken per day only
avg_rep_per_day(n_rep, n_tech) == Quot(n_rep, 30)

\* (len(rep) / (max(tech, 1) * 30)) if tech > 0 else 0.0
avg_rep_per_tech_day(n_rep, n_tech) ==
    IF n_tech > 0 THEN Quot(n_rep, Max(n_tech, 1) * 30) ELSE Quot(0, 1)

Dashboard(d, today) ==
    LET n          == Len(d)
        tech(i)    == Dashboard_clean_text(d[i].tech, T_Ukjent)
        last_30_bd == Dashboard_windows(today).last_30_bd
        prev_30_bd == Dashboard_windows(today).prev_30_bd
        rep_last   == Asc(n, {i \in 1..n : isin(d[i].rdate, last_30_bd)})
        rep_prev   == Asc(n, {i \in 1..n : isin(d[i].rdate, prev_30_bd)})
        tech_last  == Cardinality({tech(rep_last[k]) : k \in 1..Len(rep_last)})
        tech_prev  == Cardinality({tech(rep_prev[k]) : k \in 1..Len(rep_prev)})
        avg_last   == avg_rep_per_tech_day(Len(rep_last), tech_last)
        avg_prev   == avg_rep_per_tech_day(Len(rep_prev), tech_prev)
        \* delta = avg_last - avg_prev and eps = 0.01, in units of
        \* 1 / (100 * avg_last[2] * avg_prev[2])
        delta      == 100 * (avg_last[1] * avg_prev[2] - avg_prev[1] * avg_last[2])
        a1c1       == _trend_arrow_color(delta, TRUE, avg_last[2] * avg_prev[2])
        open_cases == Asc(n, {i \in 1..n : isna(d[i].rdate) /\ ~isna(d[i].recv)})
        \* KPI 2
        end_day    == today
        tat_open_days == valid_tat(open_tat_days(d, open_cases, end_day))
        closed     == {i \in 1..n : ~isna(d[i].recv) /\ ~isna(d[i].rdate)}
        start_30   == end_day - 30
        start_prev30 == end_day - 60
        repaired_dt(i) == Timestamp(d[i].rdate, d[i].rdate_time)
        closed_last == Asc(n, {i \in closed : /\ repaired_dt(i) > Timestamp(start_30, 0)
                                              /\ repaired_dt(i) <= Timestamp(end_day, 0)})
        closed_prev == Asc(n, {i \in closed : /\ repaired_dt(i) > Timestamp(start_prev30, 0)
                                              /\ repaired_dt(i) <= Timestamp(start_30, 0)})
        tat_closed_last == Dashboard_avg_tat_closed_days(d, closed_last)
        tat_closed_prev == Dashboard_avg_tat_closed_days(d, closed_prev)
        \* eps = 0.2
        a2c2       == _trend_arrow_color(QuotDelta(tat_closed_last, tat_closed_prev), FALSE,
                                         QuotBand(tat_closed_last, tat_closed_prev, 2))
        \* KPI 3: len(rep) / 30.0; delta and eps = 0.2 in units of 1 / 300
        a3c3       == _trend_arrow_color(10 * (Len(rep_last) - Len(rep_prev)), TRUE, 60)
    IN [view       |-> "Dashboard",
        last_30_bd |-> last_30_bd,
        prev_30_bd |-> prev_30_bd,
        rep_last   |-> rep_last,
        rep_prev   |-> rep_prev,
        tech_last  |-> tech_last,
        tech_prev  |-> tech_prev,
        avg_rep_per_tech_day_last |-> avg_last,
        avg_rep_per_tech_day_prev |-> avg_prev,
        a1c1       |-> a1c1,
        avg_rep_per_day_last |-> Quot(Len(rep_last), 30),
        avg_rep_per_day_prev |-> Quot(Len(rep_prev), 30),
        a3c3       |-> a3c3,
        tat_open_days |-> tat_open_days,
        tat_closed_days_last |-> valid_tat(closed_tat_days(d, closed_last)),
        tat_closed_days_prev |-> valid_tat(closed_tat_days(d, closed_prev)),
        tat_now_avg |-> mean_or_zero(tat_open_days),
        oldest_open_days |-> oldest_or_zero(tat_open_days),
        closed_last |-> closed_last,
        closed_prev |-> closed_prev,
        tat_closed_last |-> tat_closed_last,
        tat_closed_prev |-> tat_closed_prev,
        a2c2       |-> a2c2,
        open_cases |-> open_cases]

\* Inhouse, were it to go by the status text instead of the repair date
Inhouse_by_status(d) ==
    LET n       == Len(d)
        inhouse == Asc(n, {i \in 1..n : casefold(d[i].status) # casefold(T_Reparert)})
    IN [view          |-> "Inhouse",
        inhouse       |-> inhouse,
        status_group  |-> [k \in 1..Len(inhouse) |->
                              Inhouse_status_group(d[inhouse[k]].status)],
        total_inhouse |-> Len(inhouse)]

Inhouse(d) ==
    LET n       == Len(d)
        inhouse == Asc(n, {i \in 1..n : isna(d[i].rdate)})
    IN [view          |-> "Inhouse",
        inhouse       |-> inhouse,
        status_group  |-> [k \in 1..Len(inhouse) |->
                              Inhouse_status_group(d[inhouse[k]].status)],
        total_inhouse |-> Len(inhouse)]

Arbeidet(d, work_day) ==
    LET n  == Len(d)
        wt == Asc(n, {i \in 1..n :
                        /\ d[i].sdate = work_day
                        /\ casefold(strip(astype_str(d[i].status))) # T_innlevert})
    IN [view         |-> "Arbeidet",
        wt           |-> wt,
        status_group |-> [k \in 1..Len(wt) |-> Arbeidet_status_group(d[wt[k]].status)]]

\* the characters of the model's texts in code point order
CodeOrder == <<"{tab}", " ", ",", "-", ".", "/">> \o DigitChars \o <<":", "<", ">">>
             \o SubSeq(UpperChars, 1, 26) \o <<"_">> \o SubSeq(LowerChars, 1, 26)
             \o <<"{nbsp}", "{AA}", "{aa}", "{zwsp}", "{bom}">>

Ord(c) == CHOOSE i \in 1..Len(CodeOrder) : CodeOrder[i] = c

\* a < b for two texts, as Python compares str
StrLess(a, b) ==
    LET n    == IF Len(a) < Len(b) THEN Len(a) ELSE Len(b)
        diff == {i \in 1..n : a[i] # b[i]}
    IN IF diff = {} THEN Len(a) < Len(b)
       ELSE Ord(a[SetMin(diff)]) < Ord(b[SetMin(diff)])

\* sorted(xs, key=lambda x: x.casefold()): stable
sorted_casefold(xs) ==
    LET key == [i \in 1..Len(xs) |-> casefold(xs[i])]
        before(j, i) == StrLess(key[j], key[i]) \/ (key[j] = key[i] /\ j < i)
        rank(i) == Cardinality({j \in 1..Len(xs) : before(j, i)}) + 1
    IN [r \in 1..Len(xs) |-> xs[CHOOSE i \in 1..Len(xs) : rank(i) = r]]

\* Series.unique(): the distinct values in the order of their first row
unique(xs) == Pick(xs, {i \in 1..Len(xs) : \A j \in 1..(i - 1) : xs[j] # xs[i]})

\* the brand tabs of Kunder
Kunder_brands(d, base) ==
    LET name(c) == LET x == strip(astype_str(c))
                   IN IF x \in {<<>>, T_nan, T_None, T_NaN, T_NA} THEN T_Ukjent ELSE x
        cells   == [k \in 1..Len(base) |-> name(d[base[k]].brand)]
        known(x) == x # T_Ukjent
    IN sorted_casefold(unique(SelectSeq(cells, known)))

Kunder_b_open(d, brand) ==
    Asc(Len(d), {i \in 1..Len(d) :
                    /\ casefold(Kunder_clean_text(d[i].brand, T_Ukjent)) = casefold(brand)
                    /\ isna(d[i].rdate)})

Kunder(d, today) ==
    LET n      == Len(d)
        base   == Asc(n, {i \in 1..n : isna(d[i].rdate)})
        brands == Kunder_brands(d, base)
        end_day      == today
        start_30     == end_day - 30
        start_prev30 == end_day - 60
        repaired_dt(i) == Timestamp(d[i].rdate, d[i].rdate_time)
        last_30_bd == Kunder_windows(today).last_30_bd
        prev_30_bd == Kunder_windows(today).prev_30_bd
        tab(brand) ==
            LET b_open == Kunder_b_open(d, brand)
                rep_brand  == {i \in 1..n :
                                 /\ casefold(Kunder_clean_text(d[i].brand, T_Ukjent))
                                        = casefold(brand)
                                 /\ ~isna(d[i].rdate)}
                open_with_received == Asc(n, {i \in 1..n :
                                           isin(i, b_open) /\ ~isna(d[i].recv)})
                tat_open_days == valid_tat(open_tat_days(d, open_with_received, end_day))
                closed_brand == {i \in rep_brand : ~isna(d[i].recv)}
                closed_last == Asc(n, {i \in closed_brand :
                                         /\ repaired_dt(i) > Timestamp(start_30, 0)
                                         /\ repaired_dt(i) <= Timestamp(end_day, 0)})
                closed_prev == Asc(n, {i \in closed_brand :
                                         /\ repaired_dt(i) > Timestamp(start_prev30, 0)
                                         /\ repaired_dt(i) <= Timestamp(start_30, 0)})
                tat_closed_last == Kunder_avg_tat_closed_days(d, closed_last)
                tat_closed_prev == Kunder_avg_tat_closed_days(d, closed_prev)
                count_last == Cardinality({i \in rep_brand : isin(d[i].rdate, last_30_bd)})
                count_prev == Cardinality({i \in rep_brand : isin(d[i].rdate, prev_30_bd)})
            IN [brand        |-> brand,
                b_open       |-> b_open,
                open_with_received |-> open_with_received,
                tat_open_days |-> tat_open_days,
                tat_closed_days_last |-> valid_tat(closed_tat_days(d, closed_last)),
                tat_closed_days_prev |-> valid_tat(closed_tat_days(d, closed_prev)),
                tat_now_avg  |-> mean_or_zero(tat_open_days),
                oldest_open_days |-> oldest_or_zero(tat_open_days),
                closed_last  |-> closed_last,
                closed_prev  |-> closed_prev,
                tat_closed_last |-> tat_closed_last,
                tat_closed_prev |-> tat_closed_prev,
                \* eps = 0.2
                tat_arrow_color |->
                    Kunder_trend_arrow_color(QuotDelta(tat_closed_last, tat_closed_prev), FALSE,
                                             QuotBand(tat_closed_last, tat_closed_prev, 2)),
                count_last   |-> count_last,
                count_prev   |-> count_prev,
                rep_avg_last |-> Quot(count_last, 30),
                rep_avg_prev |-> Quot(count_prev, 30),
                \* rep_delta and eps = 0.05 in units of 1 / 600
                rep_arrow_color |->
                    Kunder_trend_arrow_color(20 * (count_last - count_prev), TRUE, 30),
                status_group |-> [k \in 1..Len(b_open) |->
                                     Kunder_status_group(d[b_open[k]].status)],
                totalt_inne  |-> Len(b_open)]
    IN IF base = <<>> \/ brands = <<>>
       THEN [view |-> "Kunder", base |-> base, brands |-> brands, tabs |-> <<>>,
             last_30_bd |-> <<>>, prev_30_bd |-> <<>>]
       ELSE [view |-> "Kunder", base |-> base, brands |-> brands,
             tabs |-> [k \in 1..Len(brands) |-> tab(brands[k])],
             last_30_bd |-> last_30_bd, prev_30_bd |-> prev_30_bd]

\* Series.value_counts(): the count of each distinct text
value_counts(cells) ==
    [v \in {cells[k] : k \in 1..Len(cells)} |->
        Cardinality({k \in 1..Len(cells) : cells[k] = v})]

\* _counts_table: s of one cell, after where, astype(str).str.strip() and
\* replace
counts_table_cell(c) ==
    LET x == strip(astype_str(IF c = NA THEN T_Ukjent ELSE c))
    IN IF x \in {<<>>, T_nan, T_None, T_NaN, T_NA, T_N_A} THEN T_Ukjent ELSE x

\* the categories of _counts_table and their counts
_counts_table(cells) ==
    value_counts([k \in 1..Len(cells) |-> counts_table_cell(cells[k])])

\* the index of value_counts(sort=False): the distinct texts in the order in
\* which they first appear
value_counts_unsorted(cells) ==
    LET first == Asc(Len(cells), {k \in 1..Len(cells) : \A j \in 1..(k - 1) : cells[j] # cells[k]})
    IN [i \in 1..Len(first) |-> cells[first[i]]]

\* the index of value_counts(): the distinct texts by descending count, texts
\* of one count in the order in which they first appear (sort_values keeps
\* the order of equal counts)
value_counts_index(cells) ==
    LET f  == value_counts_unsorted(cells)
        vc == value_counts(cells)
        place(i) == 1 + Cardinality({j \in 1..Len(f) :
                                       \/ vc[f[j]] > vc[f[i]]
                                       \/ vc[f[j]] = vc[f[i]] /\ j < i})
    IN [k \in 1..Len(f) |-> f[CHOOSE i \in 1..Len(f) : place(i) = k]]

\* the frame _counts_table returns: reset_index of the counts, and the column
\* Nr inserted with range(1, len(out) + 1)
counts_table_out(cells) ==
    LET s   == Computed([k \in 1..Len(cells) |-> counts_table_cell(cells[k])])
        idx == Computed(value_counts_index(s))
    IN [k \in 1..Len(idx) |-> [Nr |-> k, category |-> idx[k], count |-> value_counts(s)[idx[k]]]]

\* filter_on_day(df, "Service repair date", day)
filter_on_day_rdate(d, on_day) == Asc(Len(d), {i \in 1..Len(d) : d[i].rdate = on_day})

Reparert(d, today) ==
    LET repaired_today == filter_on_day_rdate(d, today)
        brand == [k \in 1..Len(repaired_today) |-> d[repaired_today[k]].brand]
        tech  == [k \in 1..Len(repaired_today) |-> d[repaired_today[k]].tech]
        unknown(c) == LET x == strip(astype_str(c))
                      IN IF x \in {<<>>, T_nan, T_None} THEN T_Unknown ELSE x
        tech_counts == value_counts(tech)
    IN [view              |-> "Reparert",
        repaired_today    |-> repaired_today,
        total_repaired    |-> Len(repaired_today),
        n_distinct_brands |-> Cardinality({brand[k] : k \in 1..Len(brand)} \ {<<>>, T_nan}),
        tech_counts       |-> tech_counts,
        top_tech_count    |-> IF DOMAIN tech_counts # {}
                              THEN SetMax({tech_counts[v] : v \in DOMAIN tech_counts}) ELSE 0,
        brand_df          |-> value_counts([k \in 1..Len(brand) |-> unknown(brand[k])]),
        tbl_brand         |-> _counts_table(brand),
        tbl_tech          |-> _counts_table(tech)]

\* the greatest count of a value_counts, 0 when it is empty
top_count(counts) ==
    IF DOMAIN counts # {} THEN SetMax({counts[v] : v \in DOMAIN counts}) ELSE 0

Innlevert(d, today) ==
    LET n == Len(d)
        delivered == Asc(n, {i \in 1..n : casefold(strip(astype_str(d[i].status))) = T_innlevert})
        delivered_today == Asc(n, {i \in 1..n : isin(i, delivered) /\ d[i].sdate = today})
        name(c) == LET x == strip(astype_str(c))
                   IN IF x \in {<<>>, T_nan, T_None, T_NaN} THEN T_Ukjent ELSE x
        brand_counts == value_counts([k \in 1..Len(delivered) |-> name(d[delivered[k]].brand)])
        dated == SelectSeq([k \in 1..Len(delivered) |-> d[delivered[k]].sdate],
                           LAMBDA x : ~isna(x))
    IN [view            |-> "Innlevert",
        delivered       |-> delivered,
        delivered_today |-> delivered_today,
        brand_df        |-> brand_counts,
        top_brand_count |-> top_count(brand_counts),
        date_df         |-> value_counts(dated)]

\* Historikk: stopped when the data holds no repair
Historikk(d, today) ==
    LET n == Len(d)
        repaired == Asc(n, {i \in 1..n : ~isna(d[i].rdate)})
        hist == value_counts([k \in 1..Len(repaired) |-> d[repaired[k]].rdate])
        week_start(x) == x - weekday(x)
        weekly == [w \in {week_start(x) : x \in DOMAIN hist} |->
                      Cardinality({k \in 1..Len(repaired) :
                                      week_start(d[repaired[k]].rdate) = w})]
        day_df == Asc(n, {i \in 1..n : d[i].rdate = today})
    IN IF DOMAIN hist = {}
       THEN [view |-> "Historikk", stopped |-> TRUE, hist |-> hist]
       ELSE [view |-> "Historikk", stopped |-> FALSE, hist |-> hist, weekly |-> weekly,
             day_df |-> day_df,
             tbl_brand |-> _counts_table([k \in 1..Len(day_df) |-> d[day_df[k]].brand]),
             tbl_tech  |-> _counts_table([k \in 1..Len(day_df) |-> d[day_df[k]].tech])]

Teknikere(d) ==
    LET n == Len(d)
        rep == Asc(n, {i \in 1..n : ~isna(d[i].rdate)})
        Tekniker(i) == LET x == strip(astype_str(d[i].tech))
                       IN IF x \in {<<>>, T_nan, T_None, T_NaN} THEN T_Ukjent ELSE x
        max_date == SetMax({d[rep[k]].rdate : k \in 1..Len(rep)})
        start_7  == bdate_range(max_date, 7)[1]
        start_30 == bdate_range(max_date, 30)[1]
        rep_7  == SelectSeq(rep, LAMBDA i : d[i].rdate >= start_7 /\ d[i].rdate <= max_date)
        rep_30 == SelectSeq(rep, LAMBDA i : d[i].rdate >= start_30 /\ d[i].rdate <= max_date)
        total_7  == value_counts([k \in 1..Len(rep_7) |-> Tekniker(rep_7[k])])
        total_30 == value_counts([k \in 1..Len(rep_30) |-> Tekniker(rep_30[k])])
    IN IF rep = <<>>
       THEN [view |-> "Teknikere", rep |-> rep]
       ELSE [view |-> "Teknikere", rep |-> rep, max_date |-> max_date,
             rep_7 |-> rep_7, rep_30 |-> rep_30,
             total_7 |-> total_7, total_30 |-> total_30,
             teknikere |-> DOMAIN total_7 \cup DOMAIN total_30]

\* the views of the sidebar
Views == {"Dashboard", "Reparert", "Innlevert", "Inhouse", "Arbeidet", "Historikk",
          "Teknikere", "Kunder"}

\* the run of the selected view over the table t that fetch_data made of a
\* worksheet extract and its cleaned rows d.  A table without columns (the extract of no rows at all) stops
\* the Dashboard at its check of the required columns and raises KeyError in
\* every other view at its first column; an error of fetch_data ends the run
\* before any view.
run_view(view, t, d, today, work_day) ==
       IF t.error THEN [raised |-> TRUE, stopped |-> FALSE]
       ELSE IF t.columns = <<>>
       THEN [raised |-> view # "Dashboard", stopped |-> view = "Dashboard"]
       ELSE [raised |-> FALSE, stopped |-> FALSE,
             out |-> CASE view = "Dashboard" -> Dashboard(d, today)
                       [] view = "Reparert"  -> Reparert(d, today)
                       [] view = "Innlevert" -> Innlevert(d, today)
                       [] view = "Inhouse"   -> Inhouse(d)
                       [] view = "Arbeidet"  -> Arbeidet(d, work_day)
                       [] view = "Historikk" -> Historikk(d, today)
                       [] view = "Teknikere" -> Teknikere(d)
                       [] view = "Kunder"    -> Kunder(d, today)]

\* the views, were Arbeidet to take the day selected in the sidebar
Render_selected_day(view, d, today, work_day) ==
    CASE view = "Dashboard" -> Dashboard(d, today)
      [] view = "Inhouse"   -> Inhouse(d)
      [] view = "Arbeidet"  -> Arbeidet(d, today)
      [] view = "Kunder"    -> Kunder(d, today)

Render(view, d, today, work_day) ==
    CASE view = "Dashboard" -> Dashboard(d, today)
      [] view = "Inhouse"   -> Inhouse(d)
      [] view = "Arbeidet"  -> Arbeidet(d, work_day)
      [] view = "Kunder"    -> Kunder(d, today)

(***************************************************************************)
(* Script runs.  Every interaction reruns the script from the top: the     *)
(* table is fetched and split, the selected day is initialised and         *)
(* clamped, and the selected view is derived.                              *)
(***************************************************************************)
MaxRows == 2
MaxBack == 1

NoView == [view |-> "none"]

NoForm == [u |-> <<>>, p |-> <<>>]

\* the script from the data fetch on, with cur in st.session_state["day"]
ScriptBody(view, cur) ==
    /\ df_raw' = fetch_data(values)
    /\ df' = NonSps(df_raw')
    /\ day' = SessionDay(df', cur, real_today)
    /\ selected' = view
    /\ out' = Render(view, df', day', real_today)
    /\ UNCHANGED <<values, real_today, arg, res, infer_format>>

\* a run of a session that is logged in: require_login returns True
ScriptRun(view, cur) ==
    /\ authenticated = <<TRUE>>
    /\ ScriptBody(view, cur)
    /\ UNCHANGED <<show_datepicker, authenticated, login_form>>

\* the first run shows the menu's default view
Open == selected = "none" /\ ScriptRun("Dashboard", day)

SelectDashboard == selected # "none" /\ ScriptRun("Dashboard", day)
SelectInhouse   == selected # "none" /\ ScriptRun("Inhouse", day)
SelectArbeidet  == selected # "none" /\ ScriptRun("Arbeidet", day)
SelectKunder    == selected # "none" /\ ScriptRun("Kunder", day)

\* the "previous day" button, then the rerun
PrevDay ==
    /\ selected # "none"
    /\ day - 1 >= real_today - MaxBack
    /\ ScriptRun(selected, day - 1)

\* the "next day" button, disabled when the selected day is not in the past
NextDay ==
    /\ selected # "none"
    /\ ~(day >= real_today)
    /\ ScriptRun(selected, day + 1)

\* the "I dag" button
IDag ==
    /\ selected # "none"
    /\ ScriptRun(selected, real_today)

Next ==
    \/ Open
    \/ SelectDashboard
    \/ SelectInhouse
    \/ SelectArbeidet
    \/ SelectKunder
    \/ PrevDay
    \/ NextDay
    \/ IDag

\* the tables of at most n rows drawn from RowSet
Tables(RowSet, n) == UNION {[1..k -> RowSet] : k \in 0..n}

InitTables(TableSet, Todays) ==
    /\ values \in TableSet
    /\ real_today \in Todays
    /\ df_raw = <<>>
    /\ df = <<>>
    /\ day = Unset
    /\ selected = "none"
    /\ out = NoView
    /\ arg = <<>>
    /\ res = <<>>
    /\ infer_format \in BOOLEAN
    /\ show_datepicker = FALSE
    /\ authenticated = <<TRUE>>
    /\ login_form = NoForm

InitWith(RowSet, Todays) == InitTables(Tables(RowSet, MaxRows), Todays)

(***************************************************************************)
(* The worksheets the model is run on                                      *)
(***************************************************************************)

MkRow(sdate, status, rdate, recv, brand, tech, prio, num) ==
    [sdate |-> sdate, status |-> status, rdate |-> rdate, recv |-> recv,
     brand |-> brand, tech |-> tech, prio |-> prio, num |-> num]

\* the real current date of the runs: Sunday 2024-03-17
Today0 == DaysFromCivil(2024, 3, 17)

\* two open tickets of brands that differ in letter case only, one without a
\* received date; an open ticket whose status reads repaired; and a repaired
\* ticket whose status does not
OpenRows ==
    {MkRow(D_2024_03_17, T_Innlevert, <<>>, <<>>, T_Acme, T_Ola, <<>>, <<"1">>),
     MkRow(D_2024_03_15, T_Venter_reason, <<>>, D_2024_03_01, T_acme, T_Kari, <<>>, <<"2">>),
     MkRow(D_2024_03_17, T_Reparert, <<>>, D_2024_03_01, T_Acme, T_Kari, <<>>, <<"3">>),
     MkRow(D_2024_03_15, T_Innlevert, D_2024_03_14, D_2024_03_01, T_acme, T_Ola, <<>>, <<"4">>)}

Init == InitWith(OpenRows, {Today0})

Spec == Init /\ [][Next]_vars

\* open tickets that differ in the status cell only
StatusCells ==
    {T_Venter_reason, T_VENTER_upper, T_venter_part2, T_Innlevert, <<" ">>, <<>>}

StatusRows ==
    {MkRow(D_2024_03_17, st, <<>>, D_2024_03_01, T_Acme, T_Ola, <<>>, <<"1">>) :
        st \in StatusCells}

InitStatus == InitWith(StatusRows, {Today0})

SpecStatus == InitStatus /\ [][Next]_vars

\* Monday 2024-03-18, the real current date of the runs over repaired tickets:
\* the table's latest date, Sunday 2024-03-17, is the day first selected
Today1 == DaysFromCivil(2024, 3, 18)

\* tickets repaired on Friday 2024-03-15 by two technicians, on a Saturday, not
\* at all, and on Monday 2024-02-05, the first day of the current window of
\* the Sunday and the last day of the previous window of the Monday
RepairRows ==
    {MkRow(D_2024_03_17, T_Reparert, p[1], D_2024_02_01, T_Acme, p[2], <<>>, <<"1">>) :
        p \in {<<D_2024_03_15, T_Ola>>, <<D_2024_03_15, T_Kari>>,
               <<D_2024_02_05, T_Ola>>, <<D_2024_03_16, T_Kari>>, <<<<>>, T_Ola>>}}

InitRepairs == InitWith(RepairRows, {Today1})

SpecRepairs == InitRepairs /\ [][Next]_vars

\* a ticket repaired on Friday 2024-03-15, an open ticket, and a ticket
\* repaired on Monday 2024-02-05 (in the current window of the Sunday, in the
\* previous window of the Monday), in tables of up to MaxRows + 1 tickets
ThroughputRows ==
    {MkRow(D_2024_03_17, T_Reparert, D_2024_03_15, D_2024_03_01, T_Acme, T_Ola, <<>>, <<"1">>),
     MkRow(D_2024_03_17, T_Innlevert, <<>>, D_2024_03_01, T_Acme, T_Ola, <<>>, <<"2">>),
     MkRow(D_2024_03_17, T_Reparert, D_2024_02_05, D_2024_02_01, T_acme, T_Kari, <<>>, <<"3">>)}

InitThroughput == InitTables(Tables(ThroughputRows, MaxRows + 1), {Today1})

SpecThroughput == InitThroughput /\ [][Next]_vars

(***************************************************************************)
(* Helpers applied on their own: arg holds the arguments, res the result   *)
(***************************************************************************)
NoRes == [fn |-> "none"]

InitHelper(Args) ==
    /\ arg \in Args
    /\ res = NoRes
    /\ infer_format \in BOOLEAN
    /\ values = <<>>
    /\ real_today = Today0
    /\ df_raw = <<>>
    /\ df = <<>>
    /\ day = Unset
    /\ selected = "none"
    /\ out = NoView
    /\ show_datepicker = FALSE
    /\ authenticated = <<TRUE>>
    /\ login_form = NoForm

Apply(fn, val) ==
    /\ res' = [fn |-> fn, val |-> val]
    /\ UNCHANGED <<values, df_raw, df, day, real_today, selected, out, arg, infer_format,
                 show_datepicker, authenticated, login_form>>

\* the cleaning of a date column
NumCells == {<<"1", "9", "9", "9", "9">>, <<"2", "0", "0", "0", "0">>, <<"2", "0", "0", "0", "1">>, <<"4", "5", "2", "9", "2">>, <<"5", "9", "9", "9", "9">>, <<"6", "0", "0", "0", "0">>, <<"6", "0", "0", "0", "1">>}
NullCells == {NA, T_nan, T_None, T_NaN, T_NA, <<" ">>, <<"{nbsp}", "{zwsp}">>}
JunkCells == {T_N_A, <<"x">>, <<"4", "5", ",", "2", "9", "2">>,
              <<"3", "2", ".", "0", "1", ".", "2", "0", "2", "4">>}
DateCells == {D_2024_03_15, <<"3", "1", "/", "1", "2", "/", "2", "0", "2", "4">>,
              <<"2", "0", "2", "4">>,
              <<"{bom}">> \o D_2024_03_01 \o <<" ">>}
ScrubbedNumCells == {<<"{nbsp}", "4", "5", "2", "9", "2", " ">>}

Cells == NumCells \cup NullCells \cup JunkCells \cup DateCells \cup ScrubbedNumCells

CleanDates == Apply("clean_date_series", clean_date_series(arg))

InitDates == InitHelper(UNION {[1..n -> Cells] : n \in 1..MaxRows})

SpecDates == InitDates /\ [][CleanDates]_vars

\* the turnaround times: tickets received and repaired around the as-of day,
\* the as-of day one of the last MaxBack + 1 days
TatRows ==
    {MkRow(D_2024_03_17, T_Innlevert, <<>>, D_2024_03_01, T_Acme, T_Ola, <<>>, <<"1">>),
     MkRow(D_2024_03_17, T_Innlevert, <<>>, <<>>, T_Acme, T_Ola, <<>>, <<"2">>),
     MkRow(D_2024_03_17, T_Reparert, D_2024_03_14, D_2024_03_01, T_Acme, T_Ola, <<>>, <<"3">>),
     MkRow(D_2024_03_17, T_Reparert, D_2024_02_05, D_2024_03_15, T_Acme, T_Ola, <<>>, <<"4">>),
     MkRow(D_2024_03_17, T_Innlevert, <<>>, D_2024_03_17, T_Acme, T_Kari, <<>>, <<"5">>),
     MkRow(D_2024_03_17, T_Reparert, D_2024_03_14, <<>>, T_Acme, T_Kari, <<>>, <<"6">>),
     MkRow(D_2024_03_17, T_Innlevert, <<>>, D_2024_03_01 \o T_noon, T_Acme, T_Kari, <<>>,
           <<"7">>),
     MkRow(D_2024_03_17, T_Reparert, D_2024_02_05, D_2024_02_01, T_Acme, T_Kari, <<>>, <<"8">>)}

\* the as-of days: the real current date and the day before
AsOfDays == {Today0 - 1, Today0}

\* the run fetches the worksheet arg.values; the views are then rendered for
\* the selected day arg.end_day
FetchValues ==
    /\ res.fn = "none"
    /\ df_raw' = fetch_data(arg.values)
    /\ df' = NonSps(df_raw')
    /\ res' = [fn |-> "fetch_data"]
    /\ UNCHANGED <<values, day, real_today, selected, out, arg, infer_format,
                 show_datepicker, authenticated, login_form>>

\* a measure is taken of the fetched df, to the as-of day arg.end_day
AvgTatDays ==
    /\ res.fn # "none"
    /\ Apply("avg_tat_days", [avg      |-> avg_tat_days(df, arg.end_day),
                              tat_days |-> tat_days(df, arg.end_day)])

DashboardOnDay ==
    /\ res.fn # "none"
    /\ Apply("Dashboard", Dashboard(df, arg.end_day))

KunderOnDay ==
    /\ res.fn # "none"
    /\ Apply("Kunder", Kunder(df, arg.end_day))

ReparertOnDay ==
    /\ res.fn # "none"
    /\ Apply("Reparert", Reparert(df, arg.end_day))

NextTat ==
    \/ FetchValues
    \/ AvgTatDays
    \/ DashboardOnDay
    \/ KunderOnDay

InitTat == InitHelper([values : Tables(TatRows, MaxRows), end_day : AsOfDays])

SpecTat == InitTat /\ [][NextTat]_vars

\* the 30-day windows of the TAT trend: closed tickets repaired on the as-of
\* day, on the first and last days of the windows and inside them, the repair
\* date cell a date, a date and a time of day, or a spreadsheet serial and a
\* half
S_2024_03_17_half == <<"4", "5", "3", "6", "8", ".", "5">>

TrendRows ==
    {MkRow(D_2024_03_17, T_Reparert, D_2024_03_17, D_2024_03_01, T_Acme, T_Ola, <<>>, <<"1">>),
     MkRow(D_2024_03_17, T_Reparert, D_2024_03_14, D_2024_03_01, T_Acme, T_Ola, <<>>, <<"2">>),
     MkRow(D_2024_03_17, T_Reparert, D_2024_02_16, D_2024_02_01, T_Acme, T_Ola, <<>>, <<"3">>),
     MkRow(D_2024_03_17, T_Reparert, D_2024_02_05, D_2024_02_01, T_Acme, T_Ola, <<>>, <<"4">>),
     MkRow(D_2024_03_17, T_Reparert, D_2024_03_17 \o T_noon, D_2024_03_01, T_Acme, T_Kari,
           <<>>, <<"5">>),
     MkRow(D_2024_03_17 \o T_noon, T_Reparert, D_2024_02_16 \o T_noon, D_2024_02_01, T_Acme,
           T_Kari, <<>>, <<"6">>),
     MkRow(D_2024_03_17, T_Reparert, S_2024_03_17_half, D_2024_03_01, T_Acme, T_Kari, <<>>,
           <<"7">>)}

NextTatTrend ==
    \/ FetchValues
    \/ DashboardOnDay

InitTatTrend == InitHelper([values : Tables(TrendRows, MaxRows), end_day : AsOfDays])

SpecTatTrend == InitTatTrend /\ [][NextTatTrend]_vars

\* the technicians' working days: tickets repaired on Thursday 2024-03-14,
\* Friday 2024-03-15, Saturday 2024-03-16 and Sunday 2024-03-17, on
\* 2024-03-01 and on the Monday and the Thursday six weeks before
TechRows ==
    {MkRow(D_2024_03_17, T_Reparert, D_2024_03_14, D_2024_03_01, T_Acme, T_Ola, <<>>, <<"1">>),
     MkRow(D_2024_03_17, T_Reparert, D_2024_03_15, D_2024_03_01, T_Acme, T_Ola, <<>>, <<"2">>),
     MkRow(D_2024_03_17, T_Reparert, D_2024_03_16, D_2024_03_01, T_Acme, T_Ola, <<>>, <<"3">>),
     MkRow(D_2024_03_17, T_Reparert, D_2024_03_17, D_2024_03_01, T_Acme, T_Kari, <<>>, <<"4">>),
     MkRow(D_2024_03_17, T_Reparert, D_2024_03_01, D_2024_02_01, T_Acme, T_Kari, <<>>, <<"5">>),
     MkRow(D_2024_03_17, T_Reparert, D_2024_02_05, D_2024_02_01, T_Acme, T_Kari, <<>>, <<"6">>),
     MkRow(D_2024_03_17, T_Reparert, D_2024_02_01, D_2024_02_01, T_Acme, T_Ola, <<>>, <<"7">>),
     MkRow(D_2024_03_17, T_Innlevert, <<>>, D_2024_03_01, T_Acme, T_Ola, <<>>, <<"8">>)}

TeknikereOnDay ==
    /\ res.fn # "none"
    /\ Apply("Teknikere", Teknikere(df))

NextTechs ==
    \/ FetchValues
    \/ TeknikereOnDay
    \/ DashboardOnDay

InitTechs == InitHelper([values : Tables(TechRows, MaxRows), end_day : AsOfDays])

SpecTechs == InitTechs /\ [][NextTechs]_vars

\* the counts table of a column of at most MaxCells cells: a name, the name
\* in other letters and between spaces, another name, and cells that stand
\* for no category
MaxCells == 3

CountCells == {T_Acme, T_acme, <<" ">> \o T_Acme, T_Kari, NA, <<>>, T_nan, T_N_A}

CountsTable == Apply("_counts_table", counts_table_out(arg))

InitCounts == InitHelper(UNION {[1..n -> CountCells] : n \in 0..MaxCells})

SpecCounts == InitCounts /\ [][CountsTable]_vars

\* brands and technicians: tickets, open or repaired on Friday 2024-03-15,
\* whose brand and technician cells are a name, empty, blank or a null word
NameCells == {T_Acme, <<>>, <<" ">>, T_nan, T_N_A}

TextRows ==
    {MkRow(D_2024_03_15, T_Reparert, rd, D_2024_03_01, c, c, <<>>, <<"1">>) :
        rd \in {<<>>, D_2024_03_15}, c \in NameCells}

NextText ==
    \/ FetchValues
    \/ DashboardOnDay
    \/ KunderOnDay
    \/ ReparertOnDay

InitText == InitHelper([values : Tables(TextRows, MaxRows), end_day : {Today0 - 2}])

SpecText == InitText /\ [][NextText]_vars

\* the header row: extracts of at most MaxCols columns and MaxRows rows under
\* the header, and the extract of no rows at all
MaxCols == 2

HeaderCells ==
    {expected[2], casefold(expected[2]),
     <<"S", "E", "R", "V", "I", "C", "E", " ", "S", "T", "A", "T", "U", "S">>,
     <<" ">> \o casefold(expected[2]) \o <<"{nbsp}">>,
     <<"N", "o", "t", "e">>}
DataCells == {<<>>, <<"x">>}

Sheets ==
    {<<>>, <<<<>>>>} \cup
    UNION {UNION {{<<h>> \o t : t \in Tables({[j \in 1..k |-> c] : c \in DataCells}, MaxRows)} :
                   h \in [1..k -> HeaderCells]} : k \in 1..MaxCols}

FetchSheet == Apply("fetch_data", fetch_data_columns(arg))

InitSheets == InitHelper(Sheets)

SpecSheets == InitSheets /\ [][FetchSheet]_vars

\* the views over worksheet extracts, the empty ones among them
FetchExtract ==
    /\ res.fn = "none"
    /\ res' = [fn |-> "fetch_data", val |-> fetch_data_columns(arg.sheet)]
    /\ df_raw' = IF res'.val.error \/ res'.val.columns = <<>> THEN <<>>
                 ELSE fetch_data_sheet(res'.val)
    /\ df' = NonSps(df_raw')
    /\ UNCHANGED <<values, day, real_today, selected, out, arg, infer_format,
                 show_datepicker, authenticated, login_form>>

RenderExtract ==
    /\ res.fn = "fetch_data"
    /\ \E view \in Views :
           Apply(view, run_view(view, res.val, df, arg.today, real_today))

NextExtract ==
    \/ FetchExtract
    \/ RenderExtract

InitExtract == InitHelper([sheet : Sheets, today : {Today0}])

SpecExtract == InitExtract /\ [][NextExtract]_vars

\* the business-day windows
MaxSpan == 28

LastBusinessDays       == Apply("_last_business_days", _last_business_days(arg, WindowDays))
KunderLastBusinessDays == Apply("Kunder_last_business_days",
                                Kunder_last_business_days(arg, WindowDays))
DashboardWindows       == Apply("Dashboard_windows", Dashboard_windows(arg))
KunderWindows          == Apply("Kunder_windows", Kunder_windows(arg))

NextWindows ==
    \/ LastBusinessDays
    \/ KunderLastBusinessDays
    \/ DashboardWindows
    \/ KunderWindows

InitWindows == InitHelper({Today0 - k : k \in 0..(MaxSpan - 1)})

SpecWindows == InitWindows /\ [][NextWindows]_vars

\* the trend arrow
MaxDelta == 4
MaxEps == 2

DashboardTrend == Apply("_trend_arrow_color",
                        _trend_arrow_color(arg.delta, arg.good_when_up, arg.eps))
KunderTrend    == Apply("Kunder_trend_arrow_color",
                        Kunder_trend_arrow_color(arg.delta, arg.good_when_up, arg.eps))

NextTrend ==
    \/ DashboardTrend
    \/ KunderTrend

InitTrend ==
    InitHelper([delta : (-MaxDelta)..MaxDelta, eps : 0..MaxEps, good_when_up : BOOLEAN])

SpecTrend == InitTrend /\ [][NextTrend]_vars

(***************************************************************************)
(* The session: the login gate and the date selector.  A session starts    *)
(* without keys in st.session_state; every interaction reruns the script,  *)
(* and a handler that ends in st.rerun() is one step with the rerun.       *)
(***************************************************************************)
MaxAdvance == 1

\* st.secrets["auth"]: the configured username and password
AUTH_USER == <<"a", "d", "m", "i", "n">>
AUTH_PASS == <<"p", "w", "1">>

\* what a visitor may type into Brukernavn and Passord
Usernames == {AUTH_USER, <<"A", "d", "m", "i", "n">>, AUTH_PASS, <<>>}
Passwords == {AUTH_PASS, <<"P", "W", "1">>, AUTH_USER, <<>>}

username_ok(u, p) == u = AUTH_USER

\* if u == AUTH_USER and p == AUTH_PASS
credentials_ok(u, p) == u = AUTH_USER /\ p = AUTH_PASS

\* require_login of a session that is not logged in: the key is set to False
\* when absent, the form and the request to log in are shown, and st.stop()
\* ends the run before the data fetch, the menu and the views
LoginPage(error) ==
    /\ authenticated' = <<FALSE>>
    /\ out' = [view |-> "login", error |-> error]
    /\ selected' = "none"
    /\ df_raw' = <<>>
    /\ df' = <<>>
    /\ UNCHANGED <<values, day, real_today, arg, res, infer_format, show_datepicker>>

\* the first run of a session
OpenPage ==
    /\ authenticated = <<>>
    /\ LoginPage(FALSE)
    /\ UNCHANGED login_form

\* "Logg inn": a match sets the key and reruns, and the rerun goes on to the
\* fetch and the menu's default view; a mismatch shows the error and stops
LoggInn ==
    \E u \in Usernames, p \in Passwords :
        /\ authenticated = <<FALSE>>
        /\ login_form' = [u |-> u, p |-> p]
        /\ IF credentials_ok(u, p)
           THEN /\ authenticated' = <<TRUE>>
                /\ ScriptBody("Dashboard", day)
                /\ UNCHANGED show_datepicker
           ELSE LoginPage(TRUE)

\* "Logout": the key is deleted and the rerun stops at the login form
Logout ==
    /\ authenticated = <<TRUE>>
    /\ selected # "none"
    /\ LoginPage(FALSE)
    /\ UNCHANGED login_form

\* the page is loaded anew: a new session, with an empty st.session_state
Reload ==
    /\ selected # "none" \/ authenticated # <<>>
    /\ authenticated' = <<>>
    /\ login_form' = NoForm
    /\ day' = Unset
    /\ show_datepicker' = FALSE
    /\ selected' = "none"
    /\ out' = NoView
    /\ df_raw' = <<>>
    /\ df' = <<>>
    /\ UNCHANGED <<values, real_today, arg, res, infer_format>>

\* a rerun without a click: a refresh of the shown view
Rerun ==
    /\ selected # "none"
    /\ ScriptRun(selected, day)

\* "Endre" shows or hides the date picker; the run goes on to the view, and a
\* picker that is shown holds the selected day
Endre ==
    /\ authenticated = <<TRUE>>
    /\ selected # "none"
    /\ show_datepicker' = ~show_datepicker
    /\ ScriptBody(selected, day)
    /\ UNCHANGED <<authenticated, login_form>>

\* a date picked in the picker, which offers no day after max_value
PickDate ==
    \E picked \in (real_today - MaxBack)..(real_today + MaxAdvance) :
        /\ authenticated = <<TRUE>>
        /\ selected # "none"
        /\ show_datepicker
        /\ picked <= real_today
        /\ picked # day
        /\ show_datepicker' = FALSE
        /\ ScriptBody(selected, picked)
        /\ UNCHANGED <<authenticated, login_form>>

\* midnight in the configured time zone: no script runs
Midnight ==
    /\ real_today < Today0 + MaxAdvance
    /\ real_today' = real_today + 1
    /\ UNCHANGED <<values, df_raw, df, day, selected, out, arg, res, infer_format,
                   show_datepicker, authenticated, login_form>>

NextSession ==
    \/ OpenPage
    \/ LoggInn
    \/ Logout
    \/ Reload
    \/ Rerun
    \/ SelectDashboard
    \/ SelectInhouse
    \/ SelectArbeidet
    \/ SelectKunder
    \/ PrevDay
    \/ NextDay
    \/ IDag
    \/ Endre
    \/ PickDate
    \/ Midnight

\* a repaired ticket whose status date lies after every real date of the runs
NavRows ==
    {MkRow(D_2024_03_25, T_Reparert, D_2024_03_15, D_2024_03_01, T_Acme, T_Kari, <<>>, <<"1">>)}

InitSession ==
    /\ values \in Tables(NavRows, MaxRows)
    /\ real_today = Today0
    /\ df_raw = <<>>
    /\ df = <<>>
    /\ day = Unset
    /\ selected = "none"
    /\ out = NoView
    /\ arg = <<>>
    /\ res = <<>>
    /\ infer_format \in BOOLEAN
    /\ show_datepicker = FALSE
    /\ authenticated = <<>>
    /\ login_form = NoForm

SpecSession == InitSession /\ [][NextSession]_vars

\* the worksheet is edited between two runs of a session: the next run
\* fetches another extract (no run: the cache of fetch_data holds an extract
\* for five minutes at most)
EditRows ==
    {MkRow(sd, T_Reparert, D_2024_03_01, D_2024_02_01, T_Acme, T_Kari, <<>>, <<"1">>) :
        sd \in {D_2024_03_25, D_2024_03_15, D_2024_03_01}}

\* the extracts of no ticket and of one
EditTables == {<<>>} \cup {<<r>> : r \in EditRows}

SheetEdited ==
    /\ values' \in EditTables \ {values}
    /\ UNCHANGED <<df_raw, df, day, real_today, selected, out, arg, res, infer_format,
                   show_datepicker, authenticated, login_form>>

NextEdits ==
    \/ Open
    \/ Rerun
    \/ PrevDay
    \/ NextDay
    \/ IDag
    \/ Endre
    \/ PickDate
    \/ SheetEdited

InitEdits == InitTables(EditTables, {Today0})

SpecEdits == InitEdits /\ [][NextEdits]_vars

(***************************************************************************)
(* DataFrame objects.  A view works on objects it makes of df: df.copy(),  *)
(* a boolean-mask selection and dropna each make a new object, and a       *)
(* column assignment writes to the object it is applied to.                *)
(***************************************************************************)
DataFrame(name, rows) == [name |-> name, rows |-> rows]

\* the same object under another name
same_object(frame, name) == frame

\* frame.copy()
copy(frame, name) == DataFrame(name, frame.rows)

\* frame[mask] and frame.dropna(subset=...): the rows at the positions K
selection(frame, name, K) == DataFrame(name, Pick(frame.rows, K))

\* frame[col] = ... for the columns of cols, a record of columns for each row
setitem(frame, cols) ==
    [frame EXCEPT !.rows =
        [i \in 1..Len(frame.rows) |->
            [c \in DOMAIN frame.rows[i] \cup DOMAIN cols[i] |->
                IF c \in DOMAIN cols[i] THEN cols[i][c] ELSE frame.rows[i][c]]]]

\* the columns the Dashboard derives of a row
Dashboard_columns(r) ==
    [brand        |-> Dashboard_clean_text(r.brand, T_Ukjent),
     tech         |-> Dashboard_clean_text(r.tech, T_Ukjent),
     status_clean |-> casefold(Dashboard_clean_text(r.status, <<>>)),
     received_dt  |-> Timestamp(r.recv, r.recv_time),
     repaired_dt  |-> Timestamp(r.rdate, r.rdate_time),
     status_dt    |-> Timestamp(r.sdate, r.sdate_time),
     rep_date     |-> r.rdate]

Kunder_columns(r) ==
    [brand        |-> Kunder_clean_text(r.brand, T_Ukjent),
     tech         |-> Kunder_clean_text(r.tech, T_Ukjent),
     status_clean |-> casefold(Kunder_clean_text(r.status, <<>>)),
     received_dt  |-> Timestamp(r.recv, r.recv_time),
     repaired_dt  |-> Timestamp(r.rdate, r.rdate_time),
     status_dt    |-> Timestamp(r.sdate, r.sdate_time),
     rep_date     |-> r.rdate]

Teknikere_columns(r) ==
    [Tekniker |-> Dashboard_clean_text(r.tech, T_Ukjent),
     rep_date |-> r.rdate]

\* the object a view writes its derived columns to, as the view leaves it;
\* Reparert, Innlevert and Historikk write no column to the objects they
\* select of df
derived(frame, view) ==
    setitem(frame,
            [i \in 1..Len(frame.rows) |->
                CASE view = "Dashboard" -> Dashboard_columns(frame.rows[i])
                  [] view = "Kunder"    -> Kunder_columns(frame.rows[i])
                  [] view = "Inhouse"   ->
                       [status_group |-> Inhouse_status_group(frame.rows[i].status)]
                  [] view = "Arbeidet"  ->
                       [status_group |-> Arbeidet_status_group(frame.rows[i].status)]
                  [] view = "Teknikere" -> Teknikere_columns(frame.rows[i])
                  [] OTHER              -> <<>>])

working_frame(frame, view, today, work_day) ==
    CASE view = "Dashboard" -> copy(frame, "d")
      [] view = "Kunder"    -> copy(frame, "d")
      [] view = "Reparert"  ->
           selection(frame, "repaired_today",
                     {i \in 1..Len(frame.rows) : frame.rows[i].rdate = today})
      [] view = "Innlevert" ->
           copy(selection(frame, "df[mask]",
                          {i \in 1..Len(frame.rows) :
                              casefold(strip(astype_str(frame.rows[i].status))) = T_innlevert}),
                "delivered")
      [] view = "Inhouse"   ->
           copy(selection(frame, "df[mask]",
                          {i \in 1..Len(frame.rows) : isna(frame.rows[i].rdate)}),
                "inhouse")
      [] view = "Arbeidet"  ->
           copy(selection(frame, "df[mask]",
                          {i \in 1..Len(frame.rows) :
                              /\ frame.rows[i].sdate = work_day
                              /\ casefold(strip(astype_str(frame.rows[i].status)))
                                     # T_innlevert}),
                "wt")
      [] view = "Historikk" ->
           selection(frame, "day_df",
                     {i \in 1..Len(frame.rows) : frame.rows[i].rdate = today})
      [] view = "Teknikere" ->
           copy(selection(frame, "df.dropna()",
                          {i \in 1..Len(frame.rows) : ~isna(frame.rows[i].rdate)}),
                "rep")

\* the rows of the object df after the view: those the view wrote to it, if
\* the object it wrote to is df
df_after_view(d, view, today, work_day) ==
    LET written == derived(working_frame(DataFrame("df", d), view, today, work_day), view)
    IN IF written.name = "df" THEN written.rows ELSE d

\* an open ticket, a repaired ticket, an SPS ticket and a ticket delivered
\* today
FrameRows ==
    {MkRow(D_2024_03_15, T_Venter_reason, <<>>, D_2024_03_01, T_Acme, T_Ola, <<>>, <<"1">>),
     MkRow(D_2024_03_17, T_Reparert, D_2024_03_17, D_2024_03_01, T_acme, <<>>, <<>>, <<"2">>),
     MkRow(D_2024_03_17, T_Reparert, D_2024_03_15, D_2024_03_01, T_Acme, T_Kari, T_sps, <<"3">>),
     MkRow(D_2024_03_17, T_Innlevert, <<>>, D_2024_03_17, T_Acme, T_Kari, <<>>, <<"4">>)}

\* a view is rendered over the table the run holds, for the selected day
\* arg.end_day and the real current date
RenderOnFrame ==
    \E view \in Views :
        /\ res.fn # "none"
        /\ res' = [fn |-> view, val |-> run_view(view, [error |-> FALSE, columns |-> expected],
                                                  df, arg.end_day, real_today).out]
        /\ df' = df_after_view(df, view, arg.end_day, real_today)
        /\ UNCHANGED <<values, df_raw, day, real_today, selected, out, arg, infer_format,
                       show_datepicker, authenticated, login_form>>

NextFrames ==
    \/ FetchValues
    \/ RenderOnFrame

\* open tickets whose priority cell is empty, "sps" in lower, upper and mixed
\* case and between spaces, or another text
T_SPS == <<"S", "P", "S">>
T_Sps_spaced == <<" ", "S", "p", "s", "{nbsp}">>
T_High == <<"H", "i", "g", "h">>
T_sp == <<"s", "p">>

PriorityRows ==
    {MkRow(D_2024_03_15, T_Venter_reason, <<>>, D_2024_03_01, T_Acme, T_Ola, prio, <<"1">>) :
        prio \in {<<>>, T_sps, T_SPS, T_Sps_spaced, T_High, T_sp}}

InitPriority == InitHelper([values : Tables(PriorityRows, MaxRows), end_day : AsOfDays])

SpecPriority == InitPriority /\ [][NextFrames]_vars

InitFrames == InitHelper([values : Tables(FrameRows, MaxRows), end_day : AsOfDays])

SpecFrames == InitFrames /\ [][NextFrames]_vars

(***************************************************************************)
(* Properties                                                              *)
(***************************************************************************)
Range(f) == {f[i] : i \in 1..Len(f)}

SumSeq(f) ==
    LET acc[i \in 0..Len(f)] == IF i = 0 THEN 0 ELSE acc[i - 1] + f[i]
    IN acc[Len(f)]

\* the tickets of the table without a repair date
OpenTickets == {i \in 1..Len(df) : df[i].rdate = NaT}

\* C1 as stated: Inhouse, the Dashboard's open-case TAT selection and the
\* Kunder base each select exactly the tickets whose repair date is missing.
C1_SameOpenSetInThreeViews ==
    /\ out.view = "Inhouse"   => Range(out.inhouse) = OpenTickets
    /\ out.view = "Dashboard" => Range(out.open_cases) = OpenTickets
    /\ out.view = "Kunder"    => Range(out.base) = OpenTickets

\* C1 amended: Inhouse and the Kunder base select exactly the tickets whose
\* repair date is missing, whatever their status, status date, brand and
\* technician; the Dashboard's open-case TAT selection holds exactly those of
\* them that have a received date.
C1_OpenIffNoRepairDate ==
    /\ out.view = "Inhouse"   => Range(out.inhouse) = OpenTickets
    /\ out.view = "Kunder"    => Range(out.base) = OpenTickets
    /\ out.view = "Dashboard" =>
           Range(out.open_cases) = {i \in OpenTickets : df[i].recv # NaT}

\* a run of each kind over an open ticket with a received date, an open
\* ticket without one and tickets that differ in the other fields
C1_Witness ==
    /\ out.view = "Dashboard"
    /\ Len(df) = 2
    /\ df[1].rdate = NaT /\ df[1].recv = NaT
    /\ df[2].rdate = NaT /\ df[2].recv # NaT
    /\ df[1].status # df[2].status
    /\ out.open_cases = <<2>>

\* C2 as stated: in Kunder the "Totalt inne" figures of the brand tabs sum to
\* the number of open tickets whose cleaned brand is not the placeholder, so
\* no open ticket is counted under two tabs.
C2_NoDoubleCount ==
    (out.view = "Kunder" /\ out.tabs # <<>>) =>
        SumSeq([k \in 1..Len(out.tabs) |-> out.tabs[k].totalt_inne])
            = Cardinality({i \in OpenTickets :
                              Kunder_clean_text(df[i].brand, T_Ukjent) # T_Ukjent})

\* the status groups a view shows, as pairs <<ticket, group>>
ShownGroups ==
    CASE out.view = "Inhouse" ->
             {<<out.inhouse[k], out.status_group[k]>> : k \in 1..Len(out.inhouse)}
      [] out.view = "Arbeidet" ->
             {<<out.wt[k], out.status_group[k]>> : k \in 1..Len(out.wt)}
      [] out.view = "Kunder" ->
             UNION {{<<out.tabs[t].b_open[k], out.tabs[t].status_group[k]>> :
                        k \in 1..Len(out.tabs[t].b_open)} : t \in 1..Len(out.tabs)}
      [] OTHER -> {}

\* C3 as stated: a status that begins, whatever its letter case, with
\* "venter på ekstern part" is shown under the one group "Venter på ekstern
\* part", whatever follows the prefix, a letter or a digit included.
C3_PrefixAlwaysGrouped ==
    \A p \in ShownGroups :
        StartsWith(casefold(df[p[1]].status), T_venter) => p[2] = T_Venter

\* C4 as stated: the group a view shows for a ticket's status is the one the
\* Inhouse view shows for it, in Arbeidet på and in Kunder alike.
C4_SameGroupInThreeViews ==
    \A p \in ShownGroups : p[2] = Inhouse_status_group(df[p[1]].status)

\* a date cell's text after the scrubbing and the mapping of the null words
CellText(c) == date_null_words(scrub_date_text(c))

\* the date a cell is cleaned to when it is the only cell of its column
CleanedAlone(c) == clean_date_series(<<c>>)[1]

\* C7 as stated: a whole-number cell n with 20000 <= n <= 60000, both bounds
\* included, that does not parse as a date string is cleaned to the date n days
\* after 1899-12-30.
C7_SerialRangeInclusive ==
    res.fn = "clean_date_series" =>
        \A i \in 1..Len(arg) :
            LET num == to_numeric(CellText(arg[i]))
            IN (/\ num # <<>>
                /\ num[1] >= 20000 /\ num[1] <= 60000
                /\ parse_datetime_string(CellText(arg[i])) = NaT)
               => res.val[i] = DaysFromCivil(1899, 12, 30) + num[1]

\* C8 as stated: clean_date_series gives every cell a date or the missing
\* date; a cell that is a null word, or that does not parse as a date string
\* and is no number of the plausible serial range, is cleaned to the missing
\* date; and no cell's result depends on the other cells of its column.
C8_MissingAndUnaffected ==
    res.fn = "clean_date_series" =>
        /\ Len(res.val) = Len(arg)
        /\ \A i \in 1..Len(arg) :
               LET t   == CellText(arg[i])
                   num == to_numeric(t)
               IN /\ res.val[i] \in Int
                  /\ t = NA => res.val[i] = NaT
                  /\ (/\ parse_datetime_string(t) = NaT
                      /\ (num = <<>> \/ num[1] < 20000 \/ num[1] > 60000))
                     => res.val[i] = NaT
                  /\ res.val[i] = CleanedAlone(arg[i])

\* Monday to Friday
IsBusinessDay(x) == weekday(x) \in 0..4

\* the business days after x up to and including ref
BusinessDaysAfter(x, ref) == {y \in (x + 1)..ref : IsBusinessDay(y)}

\* C5: for every reference date, _last_business_days(ref, 30), in the Dashboard
\* and in Kunder, is 30 distinct dates in ascending order, each Monday to
\* Friday and none later than ref, with no business day left out between the
\* first of them and ref: the 30 most recent business days up to ref, ref
\* itself among them when it is a business day.
C5_LastBusinessDays ==
    res.fn \in {"_last_business_days", "Kunder_last_business_days"} =>
        LET w == res.val
        IN /\ Len(w) = 30
           /\ Cardinality(Range(w)) = 30
           /\ \A k \in 1..29 : w[k] < w[k + 1]
           /\ \A k \in 1..30 : IsBusinessDay(w[k]) /\ w[k] <= arg
           /\ \A x \in w[1]..arg : IsBusinessDay(x) => x \in Range(w)
           /\ IsBusinessDay(arg) => w[30] = arg

\* a window was computed for a Sunday, and ends on the Friday before it
C5_Witness ==
    /\ res.fn = "_last_business_days"
    /\ weekday(arg) = 6
    /\ Len(res.val) = 30
    /\ res.val[30] = arg - 2

\* C6: for every reference date, in the Dashboard and in Kunder, prev_30_bd
\* has length 30, shares no date with last_30_bd, and ends on the last
\* business day before the first date of last_30_bd; the two windows together
\* are the 60 business days that end at the last date of last_30_bd.
C6_PreviousWindowContiguous ==
    res.fn \in {"Dashboard_windows", "Kunder_windows"} =>
        LET last == res.val.last_30_bd
            prev == res.val.prev_30_bd
            both == Range(prev) \cup Range(last)
        IN /\ Len(prev) = 30
           /\ Range(prev) \cap Range(last) = {}
           /\ prev[30] < last[1]
           /\ BusinessDaysAfter(prev[30], last[1]) = {last[1]}
           /\ Cardinality(both) = 60
           /\ \A x \in both : IsBusinessDay(x)
           /\ \A x \in prev[1]..last[30] : IsBusinessDay(x) => x \in both

\* the windows were computed for a Wednesday: the current one begins on a
\* Thursday and the previous one ends on the Wednesday before it
C6_Witness ==
    /\ res.fn = "Dashboard_windows"
    /\ weekday(arg) = 2
    /\ res.val.last_30_bd[30] = arg
    /\ weekday(res.val.last_30_bd[1]) = 3
    /\ res.val.prev_30_bd[30] = res.val.last_30_bd[1] - 1

\* the tickets repaired on one of the 30 business days that end at ref, when
\* back = 0, and on one of the 30 business days before those, when back = 1
RepairedInWindow(ref, back) ==
    {i \in 1..Len(df) :
        /\ df[i].rdate # NaT
        /\ df[i].rdate <= ref
        /\ IsBusinessDay(df[i].rdate)
        /\ Cardinality(BusinessDaysAfter(df[i].rdate, ref)) \in (30 * back)..(30 * back + 29)}

\* the distinct technicians of a set of tickets
Technicians(S) == {Dashboard_clean_text(df[i].tech, T_Ukjent) : i \in S}

\* n / m as a quotient equals the quotient q
SameQuotient(q, n, m) == q[2] > 0 /\ m > 0 /\ q[1] * m = n * q[2]

\* C9: on the Dashboard, for every table and selected day, the average repairs
\* per technician per day of the current window is (tickets repaired in the
\* window) / (max(distinct technicians among them, 1) * 30), and is 0 when no
\* ticket was repaired in the window; likewise for the previous window.
C9_AvgRepairsPerTechPerDay ==
    out.view = "Dashboard" =>
        \A back \in {0, 1} :
            LET S   == RepairedInWindow(day, back)
                avg == IF back = 0 THEN out.avg_rep_per_tech_day_last
                       ELSE out.avg_rep_per_tech_day_prev
            IN /\ SameQuotient(avg, Cardinality(S),
                               Max(Cardinality(Technicians(S)), 1) * 30)
               /\ S = {} => avg[1] = 0

\* a Dashboard over two tickets repaired in the current window by two
\* technicians and none in the previous window: 2 / (2 * 30) and 0
C9_Witness ==
    /\ out.view = "Dashboard"
    /\ day = real_today
    /\ Len(out.rep_last) = 2
    /\ out.tech_last = 2
    /\ out.avg_rep_per_tech_day_last = <<2, 60>>
    /\ out.rep_prev = <<>>
    /\ out.avg_rep_per_tech_day_prev = <<0, 1>>

\* C10: for every delta, eps >= 0 and good_when_up, _trend_arrow_color, in the
\* Dashboard and in Kunder, returns up when delta > eps (green if good_when_up,
\* red otherwise), down when delta < -eps (red if good_when_up, green
\* otherwise) and flat with gray when -eps <= delta <= eps; green is never
\* returned for a change in the bad direction.
C10_TrendArrowColor ==
    res.fn \in {"_trend_arrow_color", "Kunder_trend_arrow_color"} =>
        LET arrow  == res.val[1]
            colour == res.val[2]
        IN /\ arg.delta > arg.eps =>
                  arrow = "up" /\ colour = (IF arg.good_when_up THEN "green" ELSE "red")
           /\ arg.delta < -arg.eps =>
                  arrow = "down" /\ colour = (IF arg.good_when_up THEN "red" ELSE "green")
           /\ (-arg.eps <= arg.delta /\ arg.delta <= arg.eps) =>
                  arrow = "flat" /\ colour = "gray"
           /\ colour = "green" =>
                  (arg.good_when_up /\ arg.delta > 0) \/ (~arg.good_when_up /\ arg.delta < 0)

\* a fall beyond eps of a measure that is good when it rises: down and red
C10_Witness ==
    /\ res.fn = "_trend_arrow_color"
    /\ arg.good_when_up
    /\ arg.eps > 0
    /\ arg.delta < -arg.eps
    /\ res.val = <<"down", "red">>

\* the tickets of S were all repaired on one date by one technician
OneDateOneTechnician(S) ==
    \A i \in S : \A j \in S :
        /\ df[i].rdate = df[j].rdate
        /\ Dashboard_clean_text(df[i].tech, T_Ukjent) = Dashboard_clean_text(df[j].tech, T_Ukjent)

\* exactly two of the tickets S were repaired in the current window of the
\* selected day, on one date by one technician, and none in the previous one
TwoRepairsNoneBefore(S) ==
    /\ Cardinality(S \cap RepairedInWindow(day, 0)) = 2
    /\ OneDateOneTechnician(S \cap RepairedInWindow(day, 0))
    /\ S \cap RepairedInWindow(day, 1) = {}

\* the tickets of a brand, whatever its letter case
TicketsOfBrand(brand) ==
    {i \in 1..Len(df) :
        casefold(Kunder_clean_text(df[i].brand, T_Ukjent)) = casefold(brand)}

\* a card shows a current average > 0 and a previous average of 0
RisenFromZero(last, prev) == last[1] > 0 /\ last[2] > 0 /\ prev[1] = 0 /\ prev[2] > 0

\* what C11 says of the Dashboard's repairs per technician per day and of the
\* per-brand repairs per working day of Kunder
C11_TwoCardsUp ==
    /\ (out.view = "Dashboard" /\ TwoRepairsNoneBefore(1..Len(df))) =>
           /\ RisenFromZero(out.avg_rep_per_tech_day_last, out.avg_rep_per_tech_day_prev)
           /\ out.a1c1 = <<"up", "green">>
    /\ out.view = "Kunder" =>
           \A t \in 1..Len(out.tabs) :
               TwoRepairsNoneBefore(TicketsOfBrand(out.tabs[t].brand)) =>
                   /\ RisenFromZero(out.tabs[t].rep_avg_last, out.tabs[t].rep_avg_prev)
                   /\ out.tabs[t].rep_arrow_color = <<"up", "green">>

TatFrame == df
TatTickets == 1..Len(TatFrame)
TatTicketsOfBrand(brand) ==
    {i \in TatTickets :
        casefold(Kunder_clean_text(TatFrame[i].brand, T_Ukjent)) = casefold(brand)}
Received(S) == {i \in S : ~isna(TatFrame[i].recv)}
Repaired(S) == {i \in S : ~isna(TatFrame[i].rdate)}
Unrepaired(S) == {i \in S : isna(TatFrame[i].rdate)}

\* the elapsed time of ticket i, in minutes: to its repair date when it has
\* one, to the as-of day when it has none
ReceivedAt(i) == TatFrame[i].recv * MinutesPerDay + TatFrame[i].recv_time
RepairedAt(i) == TatFrame[i].rdate * MinutesPerDay + TatFrame[i].rdate_time
AsOf == arg.end_day * MinutesPerDay
ElapsedDays(i) ==
    IF ~isna(TatFrame[i].rdate) THEN RepairedAt(i) - ReceivedAt(i)
    ELSE AsOf - ReceivedAt(i)

\* the elapsed days of the tickets S, in row order, and the valid ones of them
ElapsedOf(S) ==
    LET rows == Asc(Len(TatFrame), S)
    IN [k \in 1..Len(rows) |-> ElapsedDays(rows[k])]
ValidElapsedOf(S) == ElapsedOf({i \in S : ElapsedDays(i) >= 0})

\* C12: the per-ticket TAT in avg_tat_days, in the open-case TAT and in
\* _avg_tat_closed_days of the Dashboard and of Kunder is (repair date -
\* received date) when the ticket has a repair date and (as-of day - received
\* date) when it has none: the as-of day never ends a repaired ticket, and
\* the tickets of the open-case TAT are those without a repair date, those of
\* the closed windows have one.
C12_PerTicketTat ==
    /\ res.fn = "avg_tat_days" => res.val.tat_days = ElapsedOf(Received(TatTickets))
    /\ res.fn = "Dashboard" =>
           /\ Range(res.val.closed_last) \cup Range(res.val.closed_prev)
                  \subseteq Received(Repaired(TatTickets))
           /\ res.val.tat_open_days = ValidElapsedOf(Received(Unrepaired(TatTickets)))
           /\ res.val.tat_closed_days_last = ValidElapsedOf(Range(res.val.closed_last))
           /\ res.val.tat_closed_days_prev = ValidElapsedOf(Range(res.val.closed_prev))
    /\ res.fn = "Kunder" =>
           \A t \in 1..Len(res.val.tabs) :
               LET S == TatTicketsOfBrand(res.val.tabs[t].brand)
               IN /\ Range(res.val.tabs[t].closed_last) \cup Range(res.val.tabs[t].closed_prev)
                         \subseteq Received(Repaired(S))
                  /\ res.val.tabs[t].tat_open_days = ValidElapsedOf(Received(Unrepaired(S)))
                  /\ res.val.tabs[t].tat_closed_days_last = ValidElapsedOf(Range(res.val.tabs[t].closed_last))
                  /\ res.val.tabs[t].tat_closed_days_prev = ValidElapsedOf(Range(res.val.tabs[t].closed_prev))

\* avg_tat_days over a ticket repaired 13 days after it was received and an
\* open ticket received 15 days before the as-of day
C12_Witness ==
    /\ res.fn = "avg_tat_days"
    /\ arg.end_day = Today0 - 1
    /\ Len(TatFrame) = 2
    /\ ~isna(TatFrame[1].rdate)
    /\ TatFrame[1].rdate < arg.end_day
    /\ isna(TatFrame[2].rdate)
    /\ res.val.tat_days = <<13 * MinutesPerDay, 15 * MinutesPerDay>>
    /\ res.val.avg = <<28 * MinutesPerDay, 2 * MinutesPerDay>>

\* the tickets of S that have a received date and a TAT that is not negative
Qualifying(S) == {i \in Received(S) : ElapsedDays(i) >= 0}

\* the arithmetic mean, in days, of the TATs of the qualifying tickets of S
MeanElapsed(S) ==
    IF Qualifying(S) = {} THEN <<0, 1>>
    ELSE <<SumSeq(ElapsedOf(Qualifying(S))), Cardinality(Qualifying(S)) * MinutesPerDay>>

\* q is a number, the mean TAT of S
IsMeanOf(q, S) == SameQuotient(q, MeanElapsed(S)[1], MeanElapsed(S)[2])

\* C13: avg_tat_days, the open-case mean and _avg_tat_closed_days are the
\* arithmetic mean of the TATs of exactly the tickets that have a received
\* date and a TAT that is not negative; the others are in neither the sum nor
\* the divisor, and the mean is 0.0 when no ticket qualifies.
C13_MeanOverQualifying ==
    /\ res.fn = "avg_tat_days" => IsMeanOf(res.val.avg, TatTickets)
    /\ res.fn = "Dashboard" =>
           /\ IsMeanOf(res.val.tat_now_avg, Unrepaired(TatTickets))
           /\ IsMeanOf(res.val.tat_closed_last, Range(res.val.closed_last))
           /\ IsMeanOf(res.val.tat_closed_prev, Range(res.val.closed_prev))
    /\ res.fn = "Kunder" =>
           \A t \in 1..Len(res.val.tabs) :
               /\ IsMeanOf(res.val.tabs[t].tat_now_avg,
                           Unrepaired(TatTicketsOfBrand(res.val.tabs[t].brand)))
               /\ IsMeanOf(res.val.tabs[t].tat_closed_last, Range(res.val.tabs[t].closed_last))
               /\ IsMeanOf(res.val.tabs[t].tat_closed_prev, Range(res.val.tabs[t].closed_prev))

\* the Dashboard over a ticket repaired before it was received and a ticket
\* repaired four days after, both in the previous window: the mean is 4 days
C13_Witness ==
    /\ res.fn = "Dashboard"
    /\ Len(res.val.closed_prev) = 2
    /\ \E i \in Range(res.val.closed_prev) : ElapsedDays(i) < 0
    /\ res.val.tat_closed_prev = <<4 * MinutesPerDay, MinutesPerDay>>
    /\ res.val.tat_closed_last = <<0, 1>>

\* the open tickets of S that have a received date and a TAT to the as-of day
\* that is not negative
OpenQualifying(S) == Qualifying(Unrepaired(S))

\* C14 as stated: the oldest-open-ticket age is the greatest valid TAT of the
\* open tickets that have a received date, 0 when there is none, and no open
\* ticket with a valid TAT is older.
OldestIsMax(age, S) ==
    /\ OpenQualifying(S) = {} => age = 0
    /\ OpenQualifying(S) # {} =>
           /\ \E i \in OpenQualifying(S) : ElapsedDays(i) = age * MinutesPerDay
           /\ \A i \in OpenQualifying(S) : ElapsedDays(i) <= age * MinutesPerDay

OldestWholeDays(age, S) ==
    /\ OpenQualifying(S) = {} => age = 0
    /\ OpenQualifying(S) # {} =>
           /\ \E i \in OpenQualifying(S) : ElapsedDays(i) \div MinutesPerDay = age
           /\ \A i \in OpenQualifying(S) : ElapsedDays(i) < (age + 1) * MinutesPerDay

NullWords == {<<>>, T_nan, T_None, T_NaN, T_NA, T_N_A}
IsMissing(c) == strip(c) \in NullWords

\* the cell under the placeholder of a call site
Placeheld(c, unknown) == IF IsMissing(c) THEN unknown ELSE strip(c)

\* the cells of a column of the rows x of df
CellsOf(x, col) == [k \in 1..Len(x) |-> df[x[k]][col]]

\* the counts of a call site are those of its cells under its placeholder
CountedUnder(counts, cells, unknown) ==
    counts = value_counts([k \in 1..Len(cells) |-> Placeheld(cells[k], unknown)])

\* what C15 says of the tables of _counts_table
C15_CountsTables ==
    res.fn = "Reparert" =>
        /\ CountedUnder(res.val.tbl_brand, CellsOf(res.val.repaired_today, "brand"), T_Ukjent)
        /\ CountedUnder(res.val.tbl_tech, CellsOf(res.val.repaired_today, "tech"), T_Ukjent)

\* C15: in the views that show brands or technicians, a cell that is missing,
\* empty, blank or one of "nan", "None", "NaN", "<NA>", "N/A" is shown and
\* counted under the one placeholder of the call site: none of these is a
\* category of its own, a technician of its own or a brand tab.
C15_OnePlaceholder ==
    /\ C15_CountsTables
    /\ res.fn = "Reparert" =>
           /\ CountedUnder(res.val.brand_df, CellsOf(res.val.repaired_today, "brand"), T_Unknown)
           /\ \A v \in DOMAIN res.val.tech_counts : ~IsMissing(v)
    /\ res.fn = "Dashboard" =>
           res.val.tech_last =
               Cardinality({Placeheld(df[i].tech, T_Ukjent) : i \in Range(res.val.rep_last)})
    /\ res.fn = "Kunder" => \A k \in 1..Len(res.val.brands) : ~IsMissing(res.val.brands[k])

\* the columns of the extract whose header is, but for case and the scrubbed
\* characters, the expected name e
HeadersOf(e) ==
    IF arg = <<>> THEN {}
    ELSE {j \in 1..Len(arg[1]) : casefold(norm_header(arg[1][j])) = casefold(expected[e])}
HeadersOfSheet(e) ==
    {j \in 1..Len(arg.sheet[1]) :
        casefold(norm_header(arg.sheet[1][j])) = casefold(expected[e])}

\* the columns of the fetched table that bear the expected name e
ColumnsOf(e) == {j \in 1..Len(res.val.columns) : res.val.columns[j] = expected[e]}

\* C16: for every extract, the one of no rows at all and those whose header
\* lacks expected names included, fetch_data raises no error and its table
\* has each of the eight expected columns; a column absent from the extract is
\* there with every cell missing.
C16_AllExpectedColumns ==
    res.fn = "fetch_data" =>
        /\ ~res.val.error
        /\ \A e \in 1..Len(expected) :
               /\ ColumnsOf(e) # {}
               /\ HeadersOf(e) = {} =>
                      \A j \in ColumnsOf(e) : \A i \in 1..Len(res.val.rows) :
                          res.val.rows[i][j] = NA

\* C17: when two headers that differ after scrubbing are, but for case, the
\* same expected name and neither is spelled exactly as it, the first of them
\* in the header row becomes the expected column and the other does not.
C17_FirstMatchWins ==
    res.fn = "fetch_data" =>
        \A e \in 1..Len(expected) :
            (/\ Cardinality(HeadersOf(e)) = 2
             /\ \A j \in HeadersOf(e) : norm_header(arg[1][j]) # expected[e]
             /\ \A j \in HeadersOf(e) : \A k \in HeadersOf(e) :
                    j # k => norm_header(arg[1][j]) # norm_header(arg[1][k]))
            => ColumnsOf(e) = {SetMin(HeadersOf(e))}

\* the extract holds no ticket: no row at all, or only empty rows under the
\* header row
ZeroTickets ==
    \/ arg.sheet = <<>>
    \/ \A i \in 2..Len(arg.sheet) : \A j \in 1..Len(arg.sheet[i]) : arg.sheet[i][j] = <<>>

\* what a view shows is empty: no ticket selected, no category, every count
\* 0 and every average 0
ShowsNothing(o) ==
    CASE o.view = "Dashboard" ->
             /\ o.rep_last = <<>> /\ o.rep_prev = <<>> /\ o.tech_last = 0
             /\ o.avg_rep_per_tech_day_last[1] = 0 /\ o.avg_rep_per_day_last[1] = 0
             /\ o.tat_now_avg[1] = 0 /\ o.oldest_open_days = 0
             /\ o.tat_closed_last[1] = 0 /\ o.tat_closed_prev[1] = 0
      [] o.view = "Reparert" ->
             /\ o.total_repaired = 0 /\ o.n_distinct_brands = 0 /\ o.top_tech_count = 0
             /\ DOMAIN o.brand_df = {} /\ DOMAIN o.tbl_brand = {} /\ DOMAIN o.tbl_tech = {}
      [] o.view = "Innlevert" ->
             o.delivered = <<>> /\ o.top_brand_count = 0 /\ DOMAIN o.brand_df = {}
      [] o.view = "Inhouse" -> o.total_inhouse = 0 /\ o.status_group = <<>>
      [] o.view = "Arbeidet" -> o.wt = <<>> /\ o.status_group = <<>>
      [] o.view = "Historikk" -> DOMAIN o.hist = {}
      [] o.view = "Teknikere" -> o.rep = <<>>
      [] o.view = "Kunder" -> o.base = <<>> /\ o.tabs = <<>>

\* C18: every view over an extract of zero tickets, the one without a header
\* row included, completes without raising, and what it shows is empty:
\* counts of 0 and averages of 0.0.
C18_EmptyExtractViews ==
    (res.fn \in Views /\ ZeroTickets) =>
        /\ ~res.val.raised
        /\ ~res.val.stopped => ShowsNothing(res.val.out)

\* what C18 says of the extracts that have a header row without two columns
\* of one expected name
C18_HeaderRowOnly ==
    (res.fn \in Views /\ ZeroTickets /\ arg.sheet # <<>>
        /\ \A e \in 1..Len(expected) : Cardinality(HeadersOfSheet(e)) <= 1) =>
        /\ ~res.val.raised
        /\ ~res.val.stopped
        /\ ShowsNothing(res.val.out)


\* a run went past require_login: the table was fetched or a view is shown
PastLogin ==
    \/ selected # "none"
    \/ out.view \notin {"none", "login"}
    \/ df_raw # <<>>

\* C19: whatever the visitor does with the previous-day, next-day, "I dag"
\* and "Endre" buttons and the date picker, with reruns, new sessions and
\* midnights in between, the day a run hands to its view is set and is not
\* after the real current date.
C19_DayNotAfterRealToday ==
    selected # "none" => (day # Unset /\ day <= real_today)

\* the table's latest date lies after the real date, midnight has passed, the
\* picker is open and the view shows the real date
C19_Witness ==
    /\ selected # "none"
    /\ show_datepicker
    /\ real_today > Today0
    /\ day = real_today
    /\ latest_date_in_data(df, real_today) > real_today

LoggedIn == authenticated = <<TRUE>>

LoginGateStep ==
    \* the key becomes true only on a submit that carries both secrets
    /\ (~LoggedIn /\ LoggedIn') =>
           /\ authenticated = <<FALSE>>
           /\ login_form'.u = AUTH_USER
           /\ login_form'.p = AUTH_PASS
    \* a submit that does not carry both leaves it false
    /\ (~LoggedIn /\ ~(login_form'.u = AUTH_USER /\ login_form'.p = AUTH_PASS)) =>
           ~LoggedIn'
    \* the rejection is shown to a visitor who is not logged in
    /\ (out'.view = "login" /\ out'.error) => authenticated' = <<FALSE>>
    \* once the key is gone, nothing fetched or shown remains
    /\ (LoggedIn /\ ~LoggedIn') => ~PastLogin'

\* C20: a run gets past require_login, to the data fetch and the views, only
\* in a session whose authenticated key is true; the key becomes true only
\* on a login submit whose username is AUTH_USER and whose password is
\* AUTH_PASS, any other submit leaves it false, and after Logout nothing is
\* fetched or shown until such a submit.
C20_LoginGate ==
    /\ [](PastLogin => LoggedIn)
    /\ [][LoginGateStep]_vars

\* a session that was rejected, logged in, logged out and logged in again
C20_Witness ==
    /\ LoggedIn
    /\ out.view = "Kunder"
    /\ login_form = [u |-> AUTH_USER, p |-> AUTH_PASS]
    /\ day < real_today


\* the table a run made of the worksheet it fetched
RecordTable == [df_raw |-> fetch_data(arg.values), df |-> NonSps(fetch_data(arg.values))]

\* C21: a view that is rendered, whichever and after whichever others,
\* leaves df_raw and df as the run made them: the same rows in the same
\* order, each with the same columns and the same cells.
C21_ViewsLeaveTable ==
    /\ [](res.fn \in Views => (df_raw = RecordTable.df_raw /\ df = RecordTable.df))
    /\ [][res'.fn \in Views => (df' = df /\ df_raw' = df_raw)]_vars

\* the Dashboard is shown over a table of an SPS ticket and an open ticket:
\* df_raw holds both, df the open one
C21_Witness ==
    /\ res.fn = "Dashboard"
    /\ Len(df_raw) = 2
    /\ Len(df) = 1
    /\ Len(res.val.open_cases) = 1


\* C22: every status date and repair date of the Record Table that is not
\* missing is a calendar date with no time-of-day part: a source cell with a
\* time of day, or a spreadsheet serial with a fraction, is stored as midnight
\* of its day.
C22_DatesAtMidnight ==
    \A i \in 1..Len(df_raw) :
        /\ ~isna(df_raw[i].sdate) => df_raw[i].sdate_time = 0
        /\ ~isna(df_raw[i].rdate) => df_raw[i].rdate_time = 0

\* the days of the current window of the TAT trend to the selected day and
\* of the previous one
current_window(end_day) == (end_day - 29)..end_day
previous_window(end_day) == (end_day - 59)..(end_day - 30)

\* C23: of the closed tickets, closed_last holds exactly those repaired on
\* one of the 30 calendar days ending at and including the selected day,
\* closed_prev exactly those repaired on one of the 30 days before them, and
\* no ticket is in both.
C23_TrendWindows ==
    res.fn = "Dashboard" =>
        \A i \in 1..Len(df) :
            LET is_closed == ~isna(df[i].recv) /\ ~isna(df[i].rdate)
                in_last == \E k \in 1..Len(res.val.closed_last) : res.val.closed_last[k] = i
                in_prev == \E k \in 1..Len(res.val.closed_prev) : res.val.closed_prev[k] = i
            IN /\ in_last <=> (is_closed /\ df[i].rdate \in current_window(arg.end_day))
               /\ in_prev <=> (is_closed /\ df[i].rdate \in previous_window(arg.end_day))
               /\ ~(in_last /\ in_prev)

\* the tickets of df repaired on one of the n business days ending at the
\* day end
RepairedOnBusinessDays(end, n) ==
    {i \in 1..Len(df) : ~isna(df[i].rdate) /\ isin(df[i].rdate, bdate_range(end, n))}

\* C24: the repairs Teknikere counts over the last 7 and the last 30 working
\* days are exactly those repaired on one of the 7, respectively 30, most
\* recent business days ending at the latest repair date; a repair dated on
\* a Saturday or a Sunday is not counted.
C24_WorkingDayRepairs ==
    (res.fn = "Teknikere" /\ res.val.rep # <<>>) =>
        /\ {res.val.rep_7[k] : k \in 1..Len(res.val.rep_7)}
              = RepairedOnBusinessDays(res.val.max_date, 7)
        /\ {res.val.rep_30[k] : k \in 1..Len(res.val.rep_30)}
              = RepairedOnBusinessDays(res.val.max_date, 30)

\* a ticket whose priority, trimmed and folded to lower case, is "sps"
IsSps(r) == casefold(strip(astype_str(r.prio))) = T_sps

\* the number of times the ticket r is in the table t
TimesIn(r, t) == Cardinality({i \in 1..Len(t) : t[i] = r})

\* C25: the run splits the raw table by priority into two parts that share
\* no ticket and together are the whole of it: the tickets whose priority,
\* trimmed and folded to lower case, is "sps" are df_sps and are counted by no
\* view; all the others, those without a priority included (fetch_data holds
\* an empty priority cell as the text of pd.NA), are df.
C25_PrioritySplit ==
    res.fn # "none" =>
        /\ \A i \in 1..Len(df) : ~IsSps(df[i])
        /\ \A i \in 1..Len(df_sps(df_raw)) : IsSps(df_sps(df_raw)[i])
        /\ Range(df) \cup Range(df_sps(df_raw)) = Range(df_raw)
        /\ \A r \in Range(df_raw) :
              TimesIn(r, df) + TimesIn(r, df_sps(df_raw)) = TimesIn(r, df_raw)
        /\ \A i \in 1..Len(df_raw) : df_raw[i].prio = T_NA => df_raw[i] \in Range(df)
        /\ res.fn = "Dashboard" =>
              Len(res.val.open_cases)
                = Cardinality({i \in 1..Len(df_raw) : ~IsSps(df_raw[i])})

\* the Dashboard is shown for a table of an SPS ticket written in capitals and
\* a ticket without a priority: one open case
C25_Witness ==
    /\ res.fn = "Dashboard"
    /\ Len(df_raw) = 2 /\ Len(df) = 1 /\ Len(df_sps(df_raw)) = 1
    /\ df[1].prio = T_NA
    /\ \E i \in 1..2 : arg.values[i].prio = T_SPS
    /\ Len(res.val.open_cases) = 1

\* the tickets of df whose status date is the real current date and whose
\* status is not "innlevert" in any letter case
WorkedOnToday ==
    {i \in 1..Len(df) : /\ df[i].sdate = real_today
                        /\ casefold(strip(astype_str(df[i].status))) # T_innlevert}

\* C26: Arbeidet shows the real current day whatever day is selected: its
\* tickets are those whose status date is the real current date and whose
\* status is not "innlevert", and a change of the selected day leaves what it
\* shows unchanged.
C26_ArbeidetOnRealToday ==
    /\ [](selected = "Arbeidet" => Range(out.wt) = WorkedOnToday)
    /\ [][(selected = "Arbeidet" /\ selected' = "Arbeidet") => out' = out]_vars

\* Arbeidet shows a ticket of today while the day before is selected
C26_Witness ==
    /\ selected = "Arbeidet"
    /\ day = real_today - 1
    /\ out.wt # <<>>

\* a step that changes the selected day of a session is a step of the
\* previous-day button, of the next-day button, of "I dag" or of the clamp,
\* or a pick in the date picker, which the pick hides
DayChangeStep ==
    (day # Unset /\ day' # Unset /\ day' # day) =>
        \/ day' = day - 1
        \/ day' = day + 1 /\ day < real_today
        \/ day' = real_today
        \/ show_datepicker /\ ~show_datepicker' /\ day' <= real_today

\* C27: once the selected day of a session is initialised, a later run leaves
\* it as it is although the extract has changed: it changes by the
\* previous-day and next-day buttons, "I dag", a pick of a date and the clamp
\* only.
C27_DayKeptAcrossExtracts == [][DayChangeStep]_vars

\* a view is shown for a day that is neither the latest date of the extract
\* the run fetched nor a day the buttons and the picker lead to
C27_Witness ==
    /\ selected # "none"
    /\ df # <<>>
    /\ day < real_today - MaxBack
    /\ day # latest_date_in_data(df, real_today)

\* C28: _counts_table returns one row for each distinct cleaned category, the
\* rows numbered 1..k in Nr, with counts that do not increase down the table
\* and that sum to the number of input cells.
C28_CountsTableRows ==
    res.fn = "_counts_table" =>
        LET rows == res.val
            k    == Len(rows)
        IN /\ {rows[i].category : i \in 1..k} = {counts_table_cell(arg[j]) : j \in 1..Len(arg)}
           /\ \A i, j \in 1..k : rows[i].category = rows[j].category => i = j
           /\ \A i \in 1..k : rows[i].Nr = i
           /\ \A i \in 1..(k - 1) : rows[i].count >= rows[i + 1].count
           /\ SumSeq([i \in 1..k |-> rows[i].count]) = Len(arg)

\* the table of a name and two cells of no category: Ukjent with 2 comes
\* before the name with 1
C28_Witness ==
    /\ res.fn = "_counts_table"
    /\ Len(arg) = 3 /\ arg[1] = T_Acme /\ arg[2] = NA
    /\ Len(res.val) = 2
    /\ res.val[1] = [Nr |-> 1, category |-> T_Ukjent, count |-> 2]
    /\ res.val[2] = [Nr |-> 2, category |-> T_Acme, count |-> 1]
====
